---- MODULE Spec2Model ----
(***************************************************************************)
(* Kraken-Code: the transport client (client/llm_client.py), its stream    *)
(* event model (client/response.py), the tool registry                     *)
(* (tools/builtin/registry.py, tools/base.py), the orchestrator            *)
(* (agent/agent.py, agent/event.py) and its conversation history           *)
(* (context/manager.py).                                                   *)
(*                                                                         *)
(* ClientSpec   one chat_completion call against a nondeterministic        *)
(*              provider.                                                  *)
(* RegistrySpec register / unregister / get_schemas / invoke on a          *)
(*              ToolRegistry.                                              *)
(* ContractSpec Tool.get_confirmation on tools of every kind.              *)
(* AgentSpec    run cycles of one Agent over the events its                *)
(*              chat_completion call delivers, on its own or under the     *)
(*              CLI of main.py.                                            *)
(* ContextSpec  add calls on a ContextManager.                             *)
(* ReadFileSpec one ReadFileTool.execute on a file.                        *)
(* UsageSpec    sums of TokenUsage values.                                 *)
(***************************************************************************)
EXTENDS Integers, Sequences, FiniteSets, TLC

VARIABLES
    \* ---- LLMClient.chat_completion ----
    max_retries,    \* self._max_retries
    stream,         \* the stream argument
    tools,          \* the tools argument: "None", or "True" as agent.py:73 passes
    pc,             \* position of the generator
    attempt,        \* the loop variable of `for attempt in range(...)`
    finish_reason,  \* _stream_response local
    usage,          \* _stream_response local
    tool_calls,     \* _stream_response local: the accumulator, in insertion order
    log,            \* history: requests, failures, sleeps and yielded events, in order
    seen,           \* history: the chunks the current attempt has consumed
    budget,         \* chunks the provider may still deliver in this call
    \* ---- ToolRegistry ----
    _tools,         \* self._tools: name -> tool (NoneObj when the name is no key)
    last,           \* history: what the last invoke did
    ops,            \* history: the register, unregister and get_schemas calls, in order
    \* ---- Tool ----
    confirmation,   \* history: what the last get_confirmation did
    \* ---- Agent and its ContextManager ----
    _system_prompt, \* ContextManager._system_prompt
    _messages,      \* ContextManager._messages
    agent_pc,       \* position of the generator Agent.run
    response_text,  \* _agentic_loop local
    emitted,        \* history: the AgentEvents run has yielded in the current cycle
    received,       \* history: the StreamEvents the loop has received in the cycle
    calls,          \* history: the chat_completion calls of the current cycle
    cycles,         \* run cycles begun so far
    ev_budget,      \* events chat_completion may still deliver to this agent
    adds,           \* history: the add_* calls on the ContextManager, in order
    _client,        \* LLMClient._client of the agent's client: None or "open"
    connections,    \* history: how many AsyncOpenAI clients were created and closed
    scope,          \* position relative to `async with Agent()`
    \* ---- ReadFileTool.execute ----
    read,           \* the file, the params and, once execute has returned, the result
    \* ---- TokenUsage ----
    sums,           \* three usages and, once added, their sums
    \* ---- CLI (main.py) ----
    cli_pc,         \* position of main; "none" when a caller other than the CLI drives
    cli_prompt,     \* the prompt argument of main
    consumed,       \* how many of the emitted events _process_message has handled
    cli_final,      \* _process_message local final_response
    exit_code       \* the exit status of the process, once cli_pc = "exited"

clientVars == <<max_retries, stream, tools, pc, attempt, finish_reason, usage,
                tool_calls, log, seen, budget>>
registryVars == <<_tools, last, ops>>
agentVars == <<_system_prompt, _messages, agent_pc, response_text, emitted, received,
               calls, cycles, ev_budget, adds, _client, connections, scope>>
cliVars == <<cli_pc, cli_prompt, consumed, cli_final, exit_code>>
vars == <<clientVars, registryVars, confirmation, agentVars, read, sums, cliVars>>

\* ------------------------------------------------------------------ bounds
MaxRetries == 2
MaxChunks == 2
MaxOps == 2
MaxCycles == 2
MaxEvents == 3
MaxMessages == 3
MaxTokens == 1
MaxLines == 10

\* ------------------------------------------------------------ Python values
\* None where a str is expected.
None == "None"
\* None where an object is expected.
NoneObj == [is_none |-> TRUE]
\* Python truthiness of an optional str.
Truthy(s) == s # None /\ s # ""
\* `s or ""`
OrEmpty(s) == IF Truthy(s) THEN s ELSE ""

\* ------------------------------------------------------- client/response.py
TokenUsage(completion, prompt, total, cached) ==
    [completion_tokens |-> completion, prompt_tokens |-> prompt,
     total_tokens |-> total, cached_tokens |-> cached]

\* TokenUsage.__add__: a new TokenUsage, each counter the sum of the operands'.
__add__KeepCached(self, other) ==
    TokenUsage(self.completion_tokens + other.completion_tokens,
               self.prompt_tokens + other.prompt_tokens,
               self.total_tokens + other.total_tokens,
               self.cached_tokens)
__add__(self, other) ==
    TokenUsage(self.completion_tokens + other.completion_tokens,
               self.prompt_tokens + other.prompt_tokens,
               self.total_tokens + other.total_tokens,
               self.cached_tokens + other.cached_tokens)

\* The usages that are added: a completion, a prompt and a cached count, and the
\* total of the first two.
Usages ==
    {TokenUsage(c, p, c + p, k) : c \in 0..MaxTokens, p \in 0..MaxTokens,
                                  k \in 0..MaxTokens}

\* `(a + b) + c`, `a + (b + c)`, `a + b` and `b + a` are evaluated; the operands are
\* read again afterwards.
AddUp ==
    /\ ~sums.added
    /\ sums' = [sums EXCEPT !.added = TRUE,
                            !.ab = __add__(sums.a, sums.b),
                            !.ba = __add__(sums.b, sums.a),
                            !.ab_c = __add__(__add__(sums.a, sums.b), sums.c),
                            !.a_bc = __add__(sums.a, __add__(sums.b, sums.c))]
    /\ UNCHANGED <<clientVars, registryVars, confirmation, agentVars, read, cliVars>>

\* The dataclass StreamEvent with its defaults; tool_call holds the payload of the
\* tool-call event kinds, None for the three kinds response.py defines.
StreamEvent(type) ==
    [type |-> type, text_delta |-> None, error |-> None, finish_reason |-> None,
     usage |-> NoneObj, tool_call |-> NoneObj]

stream_error(error) == [StreamEvent("error") EXCEPT !.error = error]

stream_text(content) == [StreamEvent("text_delta") EXCEPT !.text_delta = content]

stream_message_complete(fr, u, text_delta) ==
    [StreamEvent("message_complete") EXCEPT
        !.finish_reason = fr, !.usage = u, !.text_delta = text_delta]

stream_tool_call_start(call_id, name) ==
    [StreamEvent("tool_call_start") EXCEPT
        !.tool_call = [call_id |-> call_id, name |-> name]]

stream_tool_call_delta(call_id, name, arguments_delta) ==
    [StreamEvent("tool_call_delta") EXCEPT
        !.tool_call = [call_id |-> call_id, name |-> name,
                       arguments_delta |-> arguments_delta]]

stream_tool_call_complete(call_id, name, arguments) ==
    [StreamEvent("tool_call_complete") EXCEPT
        !.tool_call = [call_id |-> call_id, name |-> name, arguments |-> arguments]]

\* The argument strings of this model that are a JSON object.
JsonObjects == {"{}"}
parse_tool_call_arguments(s) ==
    IF s \in JsonObjects THEN [parsed |-> TRUE, value |-> s]
    ELSE [parsed |-> FALSE, raw |-> s]

\* ------------------------------------------------------------ the provider
\* usage objects of the provider: prompt_tokens_details is Optional in the SDK.
ProviderUsage(completion, prompt, total, details) ==
    [completion_tokens |-> completion, prompt_tokens |-> prompt,
     total_tokens |-> total, prompt_tokens_details |-> details]
UsageFull == ProviderUsage(2, 1, 3, [cached_tokens |-> 1])
UsageNoDetails == ProviderUsage(2, 1, 3, NoneObj)

\* One element of delta.tool_calls; function = NoneObj is the SDK's function=None.
ToolCallDelta(index, id, function) == [index |-> index, id |-> id, function |-> function]
Fn(name, arguments) == [name |-> name, arguments |-> arguments]

\* One streamed chunk. choices is <<>> or <<choice>>.
Chunk(u, choices) == [usage |-> u, choices |-> choices]
Choice(fr, content, tcs) == [finish_reason |-> fr, content |-> content, tool_calls |-> tcs]

Chunks ==
    { Chunk(NoneObj, <<Choice("stop", "b", <<>>)>>),
      Chunk(UsageFull, <<>>),
      Chunk(UsageFull, <<Choice("length", "", <<>>)>>),
      Chunk(NoneObj, <<Choice(None, None, <<ToolCallDelta(0, "c0", Fn("f", ""))>>)>>),
      Chunk(NoneObj, <<Choice(None, None, <<ToolCallDelta(0, None, Fn(None, "{"))>>)>>),
      Chunk(NoneObj, <<Choice(None, None, <<ToolCallDelta(0, None, Fn("h", ""))>>)>>),
      Chunk(NoneObj, <<Choice(None, "a", <<ToolCallDelta(0, None, Fn(None, "}")),
                                           ToolCallDelta(1, "c1", Fn("g", "{"))>>)>>),
      Chunk(NoneObj, <<Choice(None, None, <<ToolCallDelta(1, None, Fn(None, "}"))>>)>>),
      Chunk(NoneObj, <<Choice(None, "b", <<ToolCallDelta(1, "c1", NoneObj)>>)>>),
      Chunk(UsageNoDetails, <<Choice("stop", "a", <<>>)>>) }

\* --------------------------------------------------- client/llm_client.py
\* The position of index idx in the accumulator, 0 when `idx not in tool_calls`.
PosOf(tcs, idx) ==
    IF \E i \in 1..Len(tcs) : tcs[i].index = idx
    THEN CHOOSE i \in 1..Len(tcs) : tcs[i].index = idx
    ELSE 0

\* The state one attempt of _stream_response carries from chunk to chunk: its locals,
\* the events it yielded for the current chunk, and whether decoding raised.
StreamState(fr, u, tcs) ==
    [finish_reason |-> fr, usage |-> u, tool_calls |-> tcs, out |-> <<>>, raised |-> FALSE]

\* `if idx not in tool_calls: tool_calls[idx] = {...}`
InitEntry(tcs, d) ==
    IF PosOf(tcs, d.index) = 0
    THEN Append(tcs, [index |-> d.index, id |-> OrEmpty(d.id), name |-> "", arguments |-> ""])
    ELSE tcs

\* `if tool_call_delta.function: if tool_call_delta.function.name: ...`
SetName(st, d) ==
    LET i == PosOf(st.tool_calls, d.index) IN
    IF d.function # NoneObj /\ Truthy(d.function.name)
    THEN [st EXCEPT !.tool_calls[i].name = d.function.name,
                    !.out = Append(@, stream_tool_call_start(st.tool_calls[i].id,
                                                             d.function.name))]
    ELSE st

AddArguments_Overwrite(st, d) ==
    LET i == PosOf(st.tool_calls, d.index) IN
    IF d.function = NoneObj THEN [st EXCEPT !.raised = TRUE]
    ELSE IF Truthy(d.function.arguments)
    THEN [st EXCEPT !.tool_calls[i].arguments = d.function.arguments,
                    !.out = Append(@, stream_tool_call_delta(st.tool_calls[i].id,
                                                             st.tool_calls[i].name,
                                                             d.function.arguments))]
    ELSE st

\* `if tool_call_delta.function.arguments: ...`: reading .arguments of function=None
\* raises AttributeError.
AddArguments(st, d) ==
    LET i == PosOf(st.tool_calls, d.index) IN
    IF d.function = NoneObj THEN [st EXCEPT !.raised = TRUE]
    ELSE IF Truthy(d.function.arguments)
    THEN [st EXCEPT !.tool_calls[i].arguments = @ \o d.function.arguments,
                    !.out = Append(@, stream_tool_call_delta(st.tool_calls[i].id,
                                                             st.tool_calls[i].name,
                                                             d.function.arguments))]
    ELSE st

\* The body of `for tool_call_delta in delta.tool_calls`.
ProcessDelta(st, d) ==
    AddArguments(SetName([st EXCEPT !.tool_calls = InitEntry(@, d)], d), d)

RECURSIVE ProcessDeltas(_, _)
ProcessDeltas(st, ds) ==
    IF ds = <<>> \/ st.raised THEN st
    ELSE ProcessDeltas(ProcessDelta(st, Head(ds)), Tail(ds))

CaptureUsage_AfterChoices(st, chunk) ==
    IF chunk.usage = NoneObj \/ chunk.choices = <<>> THEN st
    ELSE IF chunk.usage.prompt_tokens_details = NoneObj THEN [st EXCEPT !.raised = TRUE]
    ELSE [st EXCEPT !.usage = TokenUsage(chunk.usage.completion_tokens,
                                         chunk.usage.prompt_tokens,
                                         chunk.usage.total_tokens,
                                         chunk.usage.prompt_tokens_details.cached_tokens)]

\* `if hasattr(chunk, "usage") and chunk.usage: usage = TokenUsage(...)`: reading
\* .cached_tokens of prompt_tokens_details=None raises AttributeError.
CaptureUsage(st, chunk) ==
    IF chunk.usage = NoneObj THEN st
    ELSE IF chunk.usage.prompt_tokens_details = NoneObj THEN [st EXCEPT !.raised = TRUE]
    ELSE [st EXCEPT !.usage = TokenUsage(chunk.usage.completion_tokens,
                                         chunk.usage.prompt_tokens,
                                         chunk.usage.total_tokens,
                                         chunk.usage.prompt_tokens_details.cached_tokens)]

\* `if choice.finish_reason: finish_reason = choice.finish_reason`
CaptureFinish(st, choice) ==
    IF Truthy(choice.finish_reason)
    THEN [st EXCEPT !.finish_reason = choice.finish_reason] ELSE st

YieldText_NotNone(st, choice) ==
    IF choice.content # None
    THEN [st EXCEPT !.out = Append(@, stream_text(choice.content))] ELSE st

\* `if delta.content: yield StreamEvent.stream_text(content=delta.content)`
YieldText(st, choice) ==
    IF Truthy(choice.content)
    THEN [st EXCEPT !.out = Append(@, stream_text(choice.content))] ELSE st

\* The body of `async for chunk in response`.
ProcessChunk(st, chunk) ==
    LET s1 == CaptureUsage(st, chunk) IN
    IF s1.raised \/ chunk.choices = <<>> THEN s1
    ELSE LET choice == chunk.choices[1] IN
         ProcessDeltas(YieldText(CaptureFinish(s1, choice), choice), choice.tool_calls)

RECURSIVE CompleteEvents_NameOnly(_)
CompleteEvents_NameOnly(tcs) ==
    IF tcs = <<>> THEN <<>>
    ELSE LET tc == Head(tcs) IN
         (IF tc.name # ""
          THEN <<stream_tool_call_complete(tc.id, tc.name,
                                           parse_tool_call_arguments(tc.arguments))>>
          ELSE <<>>) \o CompleteEvents_NameOnly(Tail(tcs))

RECURSIVE CompleteEvents_DropUnparsed(_)
CompleteEvents_DropUnparsed(tcs) ==
    IF tcs = <<>> THEN <<>>
    ELSE LET tc == Head(tcs) IN
         (IF tc.name # "" /\ tc.arguments # ""
                /\ parse_tool_call_arguments(tc.arguments).parsed
          THEN <<stream_tool_call_complete(tc.id, tc.name,
                                           parse_tool_call_arguments(tc.arguments))>>
          ELSE <<>>) \o CompleteEvents_DropUnparsed(Tail(tcs))

\* `for idx, tc in tool_calls.items(): if tc["name"] and tc["arguments"]: yield ...`
RECURSIVE CompleteEvents(_)
CompleteEvents(tcs) ==
    IF tcs = <<>> THEN <<>>
    ELSE LET tc == Head(tcs) IN
         (IF tc.name # "" /\ tc.arguments # ""
          THEN <<stream_tool_call_complete(tc.id, tc.name,
                                           parse_tool_call_arguments(tc.arguments))>>
          ELSE <<>>) \o CompleteEvents(Tail(tcs))

\* What _stream_response yields once the provider's stream has ended.
StreamTail(fr, u, tcs) ==
    CompleteEvents(tcs) \o <<stream_message_complete(fr, u, None)>>

\* One non-streamed response. choices is <<>> or <<choice>>; a tool call of the
\* message is the SDK's object, with the fields id and function.
Response(u, choices) == [usage |-> u, choices |-> choices]
MessageToolCall(id, function) == [id |-> id, function |-> function]
Responses ==
    { Response(UsageFull, <<Choice("stop", "a", <<>>)>>),
      Response(NoneObj, <<Choice(None, None, <<>>)>>),
      Response(UsageFull, <<Choice("tool_calls", None,
                                   <<MessageToolCall("c0", Fn("f", "{}"))>>)>>),
      Response(UsageNoDetails, <<Choice("stop", "a", <<>>)>>),
      Response(NoneObj, <<>>) }

\* _non_stream_response: the event it returns, or NoneObj when it raises
\* (IndexError on an empty choices list, AttributeError on tool_call.call_id, which
\* the SDK's tool call does not have, AttributeError on prompt_tokens_details=None).
\* The tool_calls list it builds is passed to nothing.
NonStreamEvent(response) ==
    IF response.choices = <<>> THEN NoneObj
    ELSE LET choices == response.choices[1]
             fr == IF Truthy(choices.finish_reason) THEN choices.finish_reason ELSE None
             text_delta == IF Truthy(choices.content) THEN choices.content ELSE None
         IN IF choices.tool_calls # <<>> THEN NoneObj
            ELSE IF response.usage = NoneObj
            THEN stream_message_complete(fr, NoneObj, text_delta)
            ELSE IF response.usage.prompt_tokens_details = NoneObj THEN NoneObj
            ELSE stream_message_complete(
                     fr,
                     TokenUsage(response.usage.completion_tokens,
                                response.usage.prompt_tokens,
                                response.usage.total_tokens,
                                response.usage.prompt_tokens_details.cached_tokens),
                     text_delta)

\* ---- the history of one call
LogEntry(kind, err, delay, event) ==
    [kind |-> kind, err |-> err, delay |-> delay, event |-> event]
Requested == LogEntry("request", None, 0, NoneObj)
Failed(e) == LogEntry("fail", e, 0, NoneObj)
Slept(d) == LogEntry("sleep", None, d, NoneObj)
Yielded(ev) == LogEntry("yield", None, 0, ev)

RECURSIVE YieldAll(_)
YieldAll(evs) == IF evs = <<>> THEN <<>> ELSE <<Yielded(Head(evs))>> \o YieldAll(Tail(evs))

\* ---- the exceptions the provider call raises
TransientErrors_All == {"RateLimitError", "APIConnectionError", "APIError"}
TransientErrors == {"RateLimitError", "APIConnectionError"}
ProviderErrors == TransientErrors \cup {"APIError"}

ErrorText(e) ==
    CASE e = "RateLimitError" -> "Rate limit error"
      [] e = "APIConnectionError" -> "API connection error"
      [] OTHER -> "API error"

\* `if attempt < self._max_retries` of the two transient except clauses.
WillRetry_OffByOne(e) == e \in TransientErrors /\ attempt <= max_retries
WillRetry(e) == e \in TransientErrors /\ attempt < max_retries

\* `delay = 2 ** attempt`
Delay_FromOne(a) == 2 ^ (a + 1)
Delay(a) == 2 ^ a

\* The except clauses of chat_completion, for exception e raised in the try block:
\* what they add to the history and where the generator goes.
HandleError(e) ==
    IF WillRetry(e)
    THEN [entries |-> <<Failed(e), Slept(Delay(attempt))>>, pc |-> "backoff"]
    ELSE [entries |-> <<Failed(e), Yielded(stream_error(ErrorText(e)))>>, pc |-> "done"]

\* ---- the steps of chat_completion
\* get_client(), kwargs, `if tools: kwargs["tools"] = self._build_tools(tools)`:
\* iterating a tools argument that is no list of dicts raises TypeError.
Start ==
    /\ pc = "start"
    /\ pc' = IF tools = "True" THEN "raised" ELSE "request"
    /\ UNCHANGED <<registryVars, confirmation, agentVars, read, sums, cliVars>>
    /\ UNCHANGED <<max_retries, stream, tools, attempt, finish_reason, usage,
                   tool_calls, log, seen, budget>>

\* `response = await client.chat.completions.create(**kwargs)` succeeds, stream=True.
RequestStream ==
    /\ pc = "request" /\ stream
    /\ log' = Append(log, Requested)
    /\ finish_reason' = None /\ usage' = NoneObj /\ tool_calls' = <<>> /\ seen' = <<>>
    /\ pc' = "receiving"
    /\ UNCHANGED <<registryVars, confirmation, agentVars, read, sums, cliVars>>
    /\ UNCHANGED <<max_retries, stream, tools, attempt, budget>>

\* The request succeeds, stream=False: the one event, then `return`.
RequestNonStream ==
    /\ pc = "request" /\ ~stream
    /\ \E response \in Responses :
         LET event == NonStreamEvent(response) IN
         /\ seen' = <<response>>
         /\ IF event = NoneObj
            THEN log' = Append(log, Requested) /\ pc' = "raised"
            ELSE log' = log \o <<Requested, Yielded(event)>> /\ pc' = "done"
    /\ UNCHANGED <<registryVars, confirmation, agentVars, read, sums, cliVars>>
    /\ UNCHANGED <<max_retries, stream, tools, attempt, finish_reason, usage,
                   tool_calls, budget>>

\* The request raises.
RequestFails ==
    /\ pc = "request"
    /\ \E e \in ProviderErrors :
         LET handled == HandleError(e) IN
         /\ log' = log \o <<Requested>> \o handled.entries
         /\ pc' = handled.pc
    /\ UNCHANGED <<registryVars, confirmation, agentVars, read, sums, cliVars>>
    /\ UNCHANGED <<max_retries, stream, tools, attempt, finish_reason, usage,
                   tool_calls, seen, budget>>
\* One iteration of `async for chunk in response`.
RecvChunk ==
    /\ pc = "receiving" /\ budget > 0
    /\ \E chunk \in Chunks :
         LET st == ProcessChunk(StreamState(finish_reason, usage, tool_calls), chunk) IN
         /\ seen' = Append(seen, chunk)
         /\ finish_reason' = st.finish_reason
         /\ usage' = st.usage
         /\ tool_calls' = st.tool_calls
         /\ log' = log \o YieldAll(st.out)
         /\ pc' = IF st.raised THEN "raised" ELSE "receiving"
    /\ budget' = budget - 1
    /\ UNCHANGED <<registryVars, confirmation, agentVars, read, sums, cliVars>>
    /\ UNCHANGED <<max_retries, stream, tools, attempt>>

\* The iteration raises: the provider fails in the middle of the stream.
StreamFails ==
    /\ pc = "receiving"
    /\ \E e \in ProviderErrors :
         LET handled == HandleError(e) IN
         /\ log' = log \o handled.entries
         /\ pc' = handled.pc
    /\ UNCHANGED <<registryVars, confirmation, agentVars, read, sums, cliVars>>
    /\ UNCHANGED <<max_retries, stream, tools, attempt, finish_reason, usage,
                   tool_calls, seen, budget>>

\* The provider's stream ends: the ToolCallComplete events, MessageComplete, `return`.
StreamEnds ==
    /\ pc = "receiving"
    /\ log' = log \o YieldAll(StreamTail(finish_reason, usage, tool_calls))
    /\ pc' = "done"
    /\ UNCHANGED <<registryVars, confirmation, agentVars, read, sums, cliVars>>
    /\ UNCHANGED <<max_retries, stream, tools, attempt, finish_reason, usage,
                   tool_calls, seen, budget>>

\* `await asyncio.sleep(delay)` returns: the next iteration of the for loop.
BackoffDone ==
    /\ pc = "backoff"
    /\ attempt' = attempt + 1
    /\ pc' = "request"
    /\ UNCHANGED <<registryVars, confirmation, agentVars, read, sums, cliVars>>
    /\ UNCHANGED <<max_retries, stream, tools, finish_reason, usage, tool_calls,
                   log, seen, budget>>

\* ------------------------------------------------------------ tools/base.py
\* ToolResult and its two constructors.
ToolResult(success, output, error, metadata) ==
    [success |-> success, output |-> output, error |-> error, metadata |-> metadata,
     truncated |-> FALSE]
error_result(error, metadata) == ToolResult(FALSE, "", error, metadata)
success_result(output) == ToolResult(TRUE, output, None, <<>>)

\* The tools of this model: the built-in read_file (ReadFileParams as its schema), a
\* tool registered under the same name, a tool with a JSON-schema mapping, and a tool
\* whose class defines no schema, so that Tool.schema raises NotImplementedError.
Tool(name, kind, schema) == [name |-> name, kind |-> kind, schema |-> schema]
ReadFileTool == Tool("read_file", "read", "ReadFileParams")
Tools ==
    { ReadFileTool,
      Tool("read_file", "write", "dict"),
      Tool("mcp_tool", "mcp", "dict"),
      Tool("base_tool", "read", "unset") }
ToolNames == {t.name : t \in Tools}

\* The params of an invocation: path (None when the key is missing), offset, and
\* whether the mapping has a key that is no str, which makes schema(**params) raise
\* TypeError.
Params(path, offset, str_keys) == [path |-> path, offset |-> offset, str_keys |-> str_keys]
ParamsSet ==
    { Params("f", 1, TRUE), Params(None, 1, TRUE), Params(None, 0, TRUE),
      Params("f", 1, FALSE) }

\* The errors of pydantic's ValidationError for ReadFileParams(**params), each
\* formatted as validate_params formats it.
ReadFileParamsErrors(params) ==
    (IF params.path = None THEN <<"Parameter 'path': Field required">> ELSE <<>>)
    \o (IF params.offset < 1
        THEN <<"Parameter 'offset': Input should be greater than or equal to 1">>
        ELSE <<>>)

\* Tool.validate_params: the list it returns, or raised when `self.schema` raises.
validate_params(tool, params) ==
    IF tool.schema = "unset" THEN [raised |-> TRUE, errors |-> <<>>]
    ELSE IF tool.schema = "ReadFileParams"
    THEN IF ~params.str_keys
         THEN [raised |-> FALSE, errors |-> <<"keywords must be strings">>]
         ELSE [raised |-> FALSE, errors |-> ReadFileParamsErrors(params)]
    ELSE [raised |-> FALSE, errors |-> <<>>]

\* ------------------------------------------------- tools/builtin/registry.py
\* `'; '.join(validation_errors)`
RECURSIVE Join(_)
Join(l) ==
    IF l = <<>> THEN ""
    ELSE IF Len(l) = 1 THEN l[1]
    ELSE l[1] \o "; " \o Join(Tail(l))

\* ToolRegistry.get
get(name) == IF name \in ToolNames THEN _tools[name] ELSE NoneObj

\* What one invoke did: the result it returned (NoneObj when an exception left invoke)
\* and, as history, the tool get(name) found, whether the name was registered, the
\* validation errors, whether execute was called and raised, and whether
\* get_confirmation was called: invoke has no call of it.
Invocation(name, params, registered, errors, called, execute_raised, raised, result) ==
    [name |-> name, params |-> params, tool |-> get(name), registered |-> registered,
     validation_errors |-> errors, execute_called |-> called,
     execute_raised |-> execute_raised, raised |-> raised, result |-> result,
     confirmation_called |-> FALSE]

\* `try: result = await tool.execute(invocation) except Exception as e: ...`, for an
\* execute that returns a success result, returns an error result, or raises.
Execute_NoCatch(name, params, outcome) ==
    CASE outcome = "success" ->
            Invocation(name, params, TRUE, <<>>, TRUE, FALSE, FALSE,
                       success_result("output"))
      [] outcome = "error_result" ->
            Invocation(name, params, TRUE, <<>>, TRUE, FALSE, FALSE,
                       error_result("File not found", <<>>))
      [] OTHER ->
            Invocation(name, params, TRUE, <<>>, TRUE, TRUE, TRUE, NoneObj)

Execute(name, params, outcome) ==
    CASE outcome = "success" ->
            Invocation(name, params, TRUE, <<>>, TRUE, FALSE, FALSE,
                       success_result("output"))
      [] outcome = "error_result" ->
            Invocation(name, params, TRUE, <<>>, TRUE, FALSE, FALSE,
                       error_result("File not found", <<>>))
      [] OTHER ->
            Invocation(name, params, TRUE, <<>>, TRUE, TRUE, FALSE,
                       error_result("Error executing tool " \o name \o ": boom",
                                    [tool_name |-> name]))

invoke_IgnoreValidation(name, params, outcome) ==
    LET tool == get(name) IN
    IF tool = NoneObj
    THEN Invocation(name, params, FALSE, <<>>, FALSE, FALSE, FALSE,
                    error_result("Unknown tool: " \o name, [tool_name |-> name]))
    ELSE LET v == validate_params(tool, params) IN
         IF v.raised
         THEN Invocation(name, params, TRUE, <<>>, FALSE, FALSE, TRUE, NoneObj)
         ELSE [Execute(name, params, outcome) EXCEPT !.validation_errors = v.errors]

\* ToolRegistry.invoke
invoke(name, params, outcome) ==
    LET tool == get(name) IN
    IF tool = NoneObj
    THEN Invocation(name, params, FALSE, <<>>, FALSE, FALSE, FALSE,
                    error_result("Unknown tool: " \o name, [tool_name |-> name]))
    ELSE LET v == validate_params(tool, params) IN
         IF v.raised
         THEN Invocation(name, params, TRUE, <<>>, FALSE, FALSE, TRUE, NoneObj)
         ELSE IF v.errors # <<>>
         THEN Invocation(name, params, TRUE, v.errors, FALSE, FALSE, FALSE,
                         error_result("Invalid parameters for tool " \o name \o ": "
                                          \o Join(v.errors),
                                      [tool_name |-> name,
                                       validation_errors |-> v.errors]))
         ELSE Execute(name, params, outcome)

ExecuteOutcomes == {"success", "error_result", "raises"}

\* ---- tools/base.py: Tool.to_openai_schema
\* model_json_schema of ReadFileParams: its properties and its required fields.
ReadFileParamsSchema ==
    [type |-> "object", properties |-> {"path", "offset", "limit"}, required |-> {"path"}]

\* Tool.to_openai_schema: the mapping it returns, or raised. `self.schema` raises
\* NotImplementedError when the class defines none; for a dict schema the method
\* builds `result` and then runs into its final `raise ValueError`: it has no return.
to_openai_schema(tool) ==
    IF tool.schema = "ReadFileParams"
    THEN [raised |-> FALSE,
          value |-> [name |-> tool.name, description |-> "description of " \o tool.name,
                     parameters |-> ReadFileParamsSchema]]
    ELSE [raised |-> TRUE, value |-> NoneObj]

\* ToolRegistry.get_tools (the tools, without the dict's order).
get_tools == {_tools[n] : n \in {m \in ToolNames : _tools[m] # NoneObj}}

\* ToolRegistry.get_schemas: the schemas it returns, or raised when one
\* to_openai_schema raises.
get_schemas ==
    IF \E t \in get_tools : to_openai_schema(t).raised
    THEN [raised |-> TRUE, schemas |-> {}, registered |-> get_tools]
    ELSE [raised |-> FALSE, schemas |-> {to_openai_schema(t).value : t \in get_tools},
          registered |-> get_tools]

\* ---- the history of the registry's operations
OpEntry(op, name, tool, returned) ==
    [op |-> op, name |-> name, tool |-> tool, returned |-> returned]

\* ToolRegistry.register: `self._tools[tool.name] = tool`
register_KeepExisting(tool) ==
    IF _tools[tool.name] # NoneObj THEN _tools ELSE [_tools EXCEPT ![tool.name] = tool]
register(tool) == [_tools EXCEPT ![tool.name] = tool]

\* ToolRegistry.unregister: the mapping afterwards and the bool returned.
unregister(name) ==
    IF name \in ToolNames /\ _tools[name] # NoneObj
    THEN [tools |-> [_tools EXCEPT ![name] = NoneObj], returned |-> TRUE]
    ELSE [tools |-> _tools, returned |-> FALSE]

Register ==
    /\ Len(ops) < MaxOps
    /\ \E tool \in Tools :
         /\ _tools' = register(tool)
         /\ ops' = Append(ops, OpEntry("register", tool.name, tool, FALSE))
    /\ UNCHANGED last
    /\ UNCHANGED <<clientVars, confirmation, agentVars, read, sums, cliVars>>

Unregister ==
    /\ Len(ops) < MaxOps
    /\ \E name \in ToolNames \cup {"unknown"} :
         /\ _tools' = unregister(name).tools
         /\ ops' = Append(ops, OpEntry("unregister", name, NoneObj,
                                       unregister(name).returned))
    /\ UNCHANGED last
    /\ UNCHANGED <<clientVars, confirmation, agentVars, read, sums, cliVars>>

\* ToolRegistry.get_schemas
GetSchemas ==
    /\ Len(ops) < MaxOps
    /\ ops' = Append(ops, OpEntry("get_schemas", None, NoneObj, get_schemas))
    /\ UNCHANGED <<_tools, last>>
    /\ UNCHANGED <<clientVars, confirmation, agentVars, read, sums, cliVars>>

\* ToolRegistry.invoke, on a tool whose execute ends in one of ExecuteOutcomes.
Invoke ==
    /\ \E name \in ToolNames \cup {"unknown"}, params \in ParamsSet,
          outcome \in ExecuteOutcomes :
         last' = invoke(name, params, outcome)
    /\ UNCHANGED <<_tools, ops>>
    /\ UNCHANGED <<clientVars, confirmation, agentVars, read, sums, cliVars>>

\* ---- tools/base.py: the confirmation contract
\* The values of ToolKind.
ToolKinds == {"read", "write", "shell", "network", "memory", "mcp"}

\* The description attribute of a tool class.
Description(tool) == "description of " \o tool.name

ToolConfirmation(tool_name, params, description) ==
    [tool_name |-> tool_name, params |-> params, description |-> description]

\* Tool.is_mutating
is_mutating_McpToo(tool, params) ==
    tool.kind \in {"write", "shell", "network", "memory", "mcp"}
is_mutating(tool, params) == tool.kind \in {"write", "shell", "network", "memory"}

\* Tool.get_confirmation
get_confirmation(tool, params) ==
    IF ~is_mutating(tool, params) THEN NoneObj
    ELSE ToolConfirmation(tool.name, params, Description(tool))

\* The tools get_confirmation is called on: every kind, under every name and schema.
AnyTools ==
    {Tool(n, k, sch) : n \in ToolNames, k \in ToolKinds, sch \in {"ReadFileParams", "dict"}}

\* One call of get_confirmation(params) on a tool.
GetConfirmation ==
    /\ \E tool \in AnyTools, params \in ParamsSet :
         confirmation' = [tool |-> tool, params |-> params,
                          is_mutating |-> is_mutating(tool, params),
                          returned |-> get_confirmation(tool, params)]
    /\ UNCHANGED <<clientVars, registryVars, agentVars, read, sums, cliVars>>

\* ------------------------------------------------- tools/builtin/read_file.py
\* ReadFileTool.MAX_FILE_SIZE and MAX_OUPUT_TOKENS; the bytes is_binary_file reads.
MAX_FILE_SIZE == 10485760
MAX_OUPUT_TOKENS == 25000
BinaryWindow == 8192
KB == 1024
MB == 1048576

\* A path as execute finds it: whether it exists and is a regular file, its size in
\* bytes, the offset of its first null byte (-1 without one) and, decoded, its lines.
File(name, exists, is_file, size, null_at, lines) ==
    [name |-> name, exists |-> exists, is_file |-> is_file, size |-> size,
     null_at |-> null_at, lines |-> lines]

\* A text file of n lines "l1" .. "ln"; the empty file has no byte.
TextFile(n) ==
    File("notes.txt", TRUE, TRUE, 100 * n, -1, [i \in 1..n |-> "l" \o ToString(i)])

Files ==
    { File("gone.txt", FALSE, FALSE, 0, -1, <<>>),
      File("src", TRUE, FALSE, 4096, -1, <<>>),
      File("big.bin", TRUE, TRUE, MAX_FILE_SIZE + 1, 0, <<>>),
      File("full.txt", TRUE, TRUE, MAX_FILE_SIZE, -1, <<"l1">>),
      File("a.png", TRUE, TRUE, BinaryWindow, 0, <<>>),
      File("b.png", TRUE, TRUE, 2 * MB, BinaryWindow - 1, <<>>),
      File("late.txt", TRUE, TRUE, BinaryWindow + 1, BinaryWindow, <<"l1">>) }
    \cup {TextFile(n) : n \in 0..MaxLines}

\* invocation.params as ReadFileParams reads them: offset, and limit when given.
ReadParams(offset, has_limit, limit) ==
    [offset |-> offset, has_limit |-> has_limit, limit |-> limit]
ReadParamsSet ==
    {ReadParams(o, FALSE, 0) : o \in 0..(MaxLines + 1)}
    \cup {ReadParams(o, TRUE, l) : o \in 0..(MaxLines + 1), l \in 1..MaxLines}

\* What count_tokens returns for the rendered output.
TokenCounts == {10, MAX_OUPUT_TOKENS, MAX_OUPUT_TOKENS + 1}

\* `{n / d:.2f}` and `{n / d:.1f}`, for n and d without a tie in the last digit.
Digits2(h) == (IF h < 10 THEN "0" ELSE "") \o ToString(h)
Fixed2(n, d) ==
    LET h == (200 * n + d) \div (2 * d) IN
    ToString(h \div 100) \o "." \o Digits2(h % 100)
Fixed1(n, d) ==
    LET t == (20 * n + d) \div (2 * d) IN
    ToString(t \div 10) \o "." \o ToString(t % 10)

\* `{i:6}`
Width6(i) ==
    (IF i < 10 THEN "     " ELSE IF i < 100 THEN "    " ELSE "   ") \o ToString(i)

\* utils/path.py is_binary_file: a null byte among the first 8192 bytes.
is_binary_file_Never(file) == FALSE
is_binary_file(file) == file.null_at \in 0..(BinaryWindow - 1)

\* `"\n".join(formatted_lines)` for `enumerate(selected_lines, start=start_idx)`:
\* the lines of index i .. end_idx - 1 (0-based), each numbered with its index.
RECURSIVE FormattedLines(_, _, _)
FormattedLines(lines, i, end_idx) ==
    IF i >= end_idx THEN ""
    ELSE Width6(i) \o ": " \o lines[i + 1]
         \o (IF i + 1 < end_idx THEN "\n" ELSE "")
         \o FormattedLines(lines, i + 1, end_idx)

\* The result for a file without lines.
EmptyFileResult_Bare == success_result("")
EmptyFileResult == [success_result("File is empty") EXCEPT !.metadata = [lines |-> 0]]

\* Lines 102-151 of execute, on the lines of the decoded file. truncate_text is
\* called without its required parameter `model`: the call raises TypeError, which
\* the enclosing `except Exception` turns into an error result.
Render(file, params, token_count) ==
    LET lines == file.lines
        total_lines == Len(lines)
        start_idx == IF params.offset - 1 > 0 THEN params.offset - 1 ELSE 0
        end_idx == IF params.has_limit
                   THEN (IF start_idx + params.limit < total_lines
                         THEN start_idx + params.limit ELSE total_lines)
                   ELSE total_lines
        output == FormattedLines(lines, start_idx, end_idx)
        header == IF start_idx > 0 \/ end_idx < total_lines
                  THEN "Lines " \o ToString(start_idx + 1) \o " to " \o ToString(end_idx)
                       \o " of " \o ToString(total_lines) \o "\n\n"
                  ELSE ""
    IN IF token_count > MAX_OUPUT_TOKENS
       THEN error_result("Failed to read file: truncate_text() missing 1 required "
                             \o "positional argument: 'model'", <<>>)
       ELSE [success_result(header \o output) EXCEPT
                !.metadata = [path |-> file.name, total_lines |-> total_lines,
                              shown_start |-> start_idx + 1, shown_end |-> end_idx,
                              truncated |-> FALSE]]

\* ReadFileTool.execute: whether it raised (ReadFileParams rejects the params, outside
\* any try), whether it came to decode the file, and the result it returned.
execute(file, params, token_count) ==
    IF params.offset < 1 \/ (params.has_limit /\ params.limit < 1)
    THEN [raised |-> TRUE, decoded |-> FALSE, result |-> NoneObj]
    ELSE IF ~file.exists
    THEN [raised |-> FALSE, decoded |-> FALSE,
          result |-> error_result("File not found at: " \o file.name, <<>>)]
    ELSE IF ~file.is_file
    THEN [raised |-> FALSE, decoded |-> FALSE,
          result |-> error_result("Path is not a file: " \o file.name, <<>>)]
    ELSE IF file.size > MAX_FILE_SIZE
    THEN [raised |-> FALSE, decoded |-> FALSE,
          result |-> error_result("File is too large: " \o Fixed1(file.size, MB)
                                      \o "MB.Max allowed size is 10MB", <<>>)]
    ELSE IF is_binary_file(file)
    THEN [raised |-> FALSE, decoded |-> FALSE,
          result |-> error_result(
              "Cannot read binary file: " \o file.name \o " ("
                  \o (IF file.size >= MB THEN Fixed2(file.size, MB) \o "MB"
                      ELSE Fixed2(file.size, KB) \o "KB")
                  \o ")This tool only reads text files.", <<>>)]
    ELSE [raised |-> FALSE, decoded |-> TRUE,
          result |-> IF Len(file.lines) = 0 THEN EmptyFileResult
                     ELSE Render(file, params, token_count)]

\* One call of execute.
ExecuteReadFile ==
    /\ read.result = NoneObj /\ ~read.raised
    /\ LET e == execute(read.file, read.params, read.token_count) IN
         read' = [read EXCEPT !.raised = e.raised, !.decoded = e.decoded,
                              !.result = e.result]
    /\ UNCHANGED <<clientVars, registryVars, confirmation, agentVars, sums, cliVars>>

\* ------------------------------------------------------------ agent/event.py
AgentEvent(type, data) == [type |-> type, data |-> data]
agent_start(message) == AgentEvent("agent_start", [message |-> message])
agent_end(response) == AgentEvent("agent_end", [response |-> response, usage |-> None])
agent_error(error) == AgentEvent("agent_error", [error |-> error, details |-> <<>>])
text_delta(content) == AgentEvent("text_delta", [content |-> content])
text_complete(content) == AgentEvent("text_complete", [content |-> content])

\* ------------------------------------------------------- context/manager.py
\* MessageItem without token_count, which nothing reads.
MessageItem(role, content, tool_call_id) ==
    [role |-> role, content |-> content, tool_call_id |-> tool_call_id,
     tool_calls |-> <<>>]

\* MessageItem.to_dict: role, and each of tool_call_id, tool_calls and content only
\* when it is truthy.
to_dict(item) ==
    ("role" :> item.role)
    @@ (IF Truthy(item.tool_call_id) THEN ("tool_call_id" :> item.tool_call_id)
        ELSE <<>>)
    @@ (IF item.tool_calls # <<>> THEN ("tool_calls" :> item.tool_calls) ELSE <<>>)
    @@ (IF Truthy(item.content) THEN ("content" :> item.content) ELSE <<>>)

add_user_message_Prepend(items, message) ==
    <<MessageItem("user", message, None)>> \o items

\* ContextManager.add_user_message
add_user_message(items, message) == Append(items, MessageItem("user", message, None))

\* ContextManager.add_assistant_message: `content=message or ""`
add_assistant_message(items, message) ==
    Append(items, MessageItem("assistant", OrEmpty(message), None))

\* ContextManager.add_tool_result
add_tool_result(items, tool_call_id, content) ==
    Append(items, MessageItem("tool", content, tool_call_id))

\* ContextManager.get_messages, on the history `items`
get_messages_PromptLast(items) ==
    [i \in 1..Len(items) |-> to_dict(items[i])]
    \o (IF Truthy(_system_prompt)
        THEN <<[role |-> "system", content |-> _system_prompt]>> ELSE <<>>)
get_messages(items) ==
    (IF Truthy(_system_prompt)
     THEN <<[role |-> "system", content |-> _system_prompt]>> ELSE <<>>)
    \o [i \in 1..Len(items) |-> to_dict(items[i])]

\* ------------------------------------------------------------ agent/agent.py
\* The messages a caller passes to run.
UserMessages == {"hi", "yo"}
\* What get_system_prompt returned when the ContextManager was built.
SystemPrompts == {"", "You are Kraken"}

\* ---- the add_* calls made on a ContextManager
AddEntry(op, message, tool_call_id) ==
    [op |-> op, message |-> message, tool_call_id |-> tool_call_id]

\* The arguments callers pass: a user message, the assistant's text or None, and a
\* tool result with its call id.
AssistantMessages == {"ab", None}
ToolResults == {<<"c0", "output">>, <<"c1", "">>}

\* add_user_message(message), called on the ContextManager directly.
AddUserMessage ==
    /\ Len(_messages) < MaxMessages
    /\ \E message \in UserMessages :
         /\ _messages' = add_user_message(_messages, message)
         /\ adds' = Append(adds, AddEntry("user", message, None))
    /\ UNCHANGED <<_system_prompt, agent_pc, response_text, emitted, received, calls,
                   cycles, ev_budget, _client, connections, scope>>
    /\ UNCHANGED <<clientVars, registryVars, confirmation, read, sums, cliVars>>

\* add_assistant_message(message)
AddAssistantMessage ==
    /\ Len(_messages) < MaxMessages
    /\ \E message \in AssistantMessages :
         /\ _messages' = add_assistant_message(_messages, message)
         /\ adds' = Append(adds, AddEntry("assistant", message, None))
    /\ UNCHANGED <<_system_prompt, agent_pc, response_text, emitted, received, calls,
                   cycles, ev_budget, _client, connections, scope>>
    /\ UNCHANGED <<clientVars, registryVars, confirmation, read, sums, cliVars>>

\* add_tool_result(tool_call_id, content)
AddToolResult ==
    /\ Len(_messages) < MaxMessages
    /\ \E r \in ToolResults :
         /\ _messages' = add_tool_result(_messages, r[1], r[2])
         /\ adds' = Append(adds, AddEntry("tool", r[2], r[1]))
    /\ UNCHANGED <<_system_prompt, agent_pc, response_text, emitted, received, calls,
                   cycles, ev_budget, _client, connections, scope>>
    /\ UNCHANGED <<clientVars, registryVars, confirmation, read, sums, cliVars>>

\* The events the generator chat_completion(messages, True) delivers to the loop,
\* taken from what ClientSpec yields in streaming mode: text, a completed tool call,
\* and the two terminal events, after which the generator returns.
TransportEvents ==
    { stream_text("a"),
      stream_text("b"),
      stream_tool_call_complete("c0", "f", parse_tool_call_arguments("{}")),
      stream_message_complete("stop", UsageFull, None),
      stream_error(ErrorText("APIError")) }

\* The generator returns after it has yielded one of these.
IsLastOfStream(event) == event.type \in {"message_complete", "error"}
Exhausted == received # <<>> /\ IsLastOfStream(received[Len(received)])

\* The body of `async for event in self.llm_client.chat_completion(...)`: the
\* AgentEvents it yields for one StreamEvent. Event kinds other than TEXT_DELTA and
\* ERROR have no branch.
OnStreamEvent_Twice(event) ==
    IF event.type = "text_delta" /\ Truthy(event.text_delta)
    THEN <<text_delta(event.text_delta), text_delta(event.text_delta)>>
    ELSE IF event.type = "error" THEN <<agent_error(event.error)>>
    ELSE <<>>
OnStreamEvent_DropError(event) ==
    IF event.type = "text_delta" /\ Truthy(event.text_delta)
    THEN <<text_delta(event.text_delta)>>
    ELSE <<>>
OnStreamEvent(event) ==
    IF event.type = "text_delta"
    THEN IF Truthy(event.text_delta) THEN <<text_delta(event.text_delta)>> ELSE <<>>
    ELSE IF event.type = "error"
    THEN <<agent_error(IF Truthy(event.error) THEN event.error
                       ELSE "Unknow error occured.")>>
    ELSE <<>>

\* `response_text += content` of the same body.
Accumulate_Prepend(text, event) ==
    IF event.type = "text_delta" /\ Truthy(event.text_delta)
    THEN event.text_delta \o text ELSE text
Accumulate(text, event) ==
    IF event.type = "text_delta" /\ Truthy(event.text_delta)
    THEN text \o event.text_delta ELSE text

\* What _agentic_loop yields after the loop: `if response_text: yield text_complete`.
AfterLoop_Always(text) == <<text_complete(text)>>
AfterLoop(text) == IF text # "" THEN <<text_complete(text)>> ELSE <<>>

\* run's final_response after it has forwarded `events`: the content of the last
\* TEXT_COMPLETE among them, None without one.
RECURSIVE FinalResponse(_)
FinalResponse(events) ==
    IF events = <<>> THEN None
    ELSE LET e == events[Len(events)] IN
         IF e.type = "text_complete" THEN e.data.content
         ELSE FinalResponse(SubSeq(events, 1, Len(events) - 1))

\* LLMClient.get_client and LLMClient.close on the pair (self._client, connections
\* made and closed so far); "open" stands for the AsyncOpenAI object.
get_client(c, n) ==
    IF c = None
    THEN [_client |-> "open", connections |-> [n EXCEPT !.created = @ + 1]]
    ELSE [_client |-> c, connections |-> n]

close_Forget(c, n) == [_client |-> None, connections |-> n]
close(c, n) ==
    IF c # None
    THEN [_client |-> None, connections |-> [n EXCEPT !.closed = @ + 1]]
    ELSE [_client |-> c, connections |-> n]

\* The first statement of chat_completion, `client = self.get_client()`, runs when
\* the loop pulls for the first time, before anything that can raise.
AtFirstPull ==
    LET got == IF received = <<>> THEN get_client(_client, connections)
               ELSE [_client |-> _client, connections |-> connections] IN
    /\ _client' = got._client
    /\ connections' = got.connections

\* The prompt argument of main: absent, empty, or a message.
CliPrompts == {None, ""} \cup UserMessages

\* The caller resumes the generator of run: any caller when the agent is used on
\* its own (cli_pc = "none"); under the CLI, the `async for` of _process_message,
\* which asks for the next event once its body has run on every event so far.
CallerPulls ==
    \/ cli_pc = "none"
    \/ cli_pc = "consuming" /\ consumed = Len(emitted)

\* run(message) up to its first yield: AgentStart.
Run ==
    /\ scope = "inside"
    /\ CallerPulls
    /\ agent_pc \in {"idle", "ended"}
    /\ cycles < MaxCycles
    /\ \E message \in UserMessages :
         /\ cli_pc = "consuming" => (message = cli_prompt /\ agent_pc = "idle")
         /\ emitted' = <<agent_start(message)>>
    /\ agent_pc' = "started"
    /\ cycles' = cycles + 1
    /\ received' = <<>> /\ calls' = <<>>
    /\ UNCHANGED <<_system_prompt, _messages, response_text, ev_budget>>
    /\ UNCHANGED <<adds, _client, connections, scope>>
    /\ UNCHANGED <<clientVars, registryVars, confirmation, read, sums, cliVars>>

\* run resumed: add_user_message, then _agentic_loop up to its call of
\* chat_completion(messages, True), whose second parameter is `tools`.
EnterLoop ==
    /\ scope = "inside"
    /\ CallerPulls
    /\ agent_pc = "started"
    /\ LET items == add_user_message(_messages, emitted[1].data.message) IN
         /\ _messages' = items
         /\ calls' = Append(calls, [messages |-> get_messages(items), tools |-> "True"])
    /\ adds' = Append(adds, AddEntry("user", emitted[1].data.message, None))
    /\ response_text' = ""
    /\ agent_pc' = "streaming"
    /\ UNCHANGED <<_system_prompt, emitted, received, cycles, ev_budget>>
    /\ UNCHANGED <<_client, connections, scope>>
    /\ UNCHANGED <<clientVars, registryVars, confirmation, read, sums, cliVars>>

\* An exception leaves chat_completion while the loop waits for the next event, and
\* so leaves _agentic_loop and run, which catch nothing. At the first pull this is
\* the TypeError of _build_tools(True) (Start, with tools = "True"); later it is one
\* of the exceptions _stream_response lets through.
PullRaises ==
    /\ scope = "inside"
    /\ CallerPulls
    /\ agent_pc = "streaming"
    /\ ~Exhausted
    /\ AtFirstPull
    /\ agent_pc' = "raised"
    /\ UNCHANGED <<_system_prompt, _messages, response_text, emitted, received, calls,
                   cycles, ev_budget>>
    /\ UNCHANGED <<adds, scope>>
    /\ UNCHANGED <<clientVars, registryVars, confirmation, read, sums, cliVars>>

\* chat_completion delivers an event and the loop body runs on it.
PullEvent ==
    /\ scope = "inside"
    /\ CallerPulls
    /\ agent_pc = "streaming"
    /\ ~Exhausted
    /\ ev_budget > 0
    /\ AtFirstPull
    /\ \E event \in TransportEvents :
         /\ received' = Append(received, event)
         /\ emitted' = emitted \o OnStreamEvent(event)
         /\ response_text' = Accumulate(response_text, event)
    /\ ev_budget' = ev_budget - 1
    /\ UNCHANGED <<_system_prompt, _messages, agent_pc, calls, cycles>>
    /\ UNCHANGED <<adds, scope>>
    /\ UNCHANGED <<clientVars, registryVars, confirmation, read, sums, cliVars>>

\* chat_completion has returned: the code after the loop, and the rest of run.
LoopExit ==
    /\ scope = "inside"
    /\ CallerPulls
    /\ agent_pc = "streaming"
    /\ Exhausted
    /\ _messages' = add_assistant_message(_messages,
                                          IF response_text # "" THEN response_text
                                          ELSE None)
    /\ LET forwarded == SubSeq(emitted, 2, Len(emitted)) \o AfterLoop(response_text) IN
         emitted' = <<emitted[1]>> \o forwarded \o <<agent_end(FinalResponse(forwarded))>>
    /\ adds' = Append(adds, AddEntry("assistant",
                                     IF response_text # "" THEN response_text ELSE None,
                                     None))
    /\ agent_pc' = "ended"
    /\ UNCHANGED <<_system_prompt, response_text, received, calls, cycles, ev_budget>>
    /\ UNCHANGED <<_client, connections, scope>>
    /\ UNCHANGED <<clientVars, registryVars, confirmation, read, sums, cliVars>>

\* Agent.__aexit__, when the `async with Agent()` block is left: by its last
\* statement, by an exception of run, or by the caller giving up a suspended run.
ExitScope ==
    /\ scope = "inside"
    /\ cli_pc = "none"
    /\ LET closed == close(_client, connections) IN
         /\ _client' = closed._client
         /\ connections' = closed.connections
    /\ scope' = "left"
    /\ UNCHANGED <<_system_prompt, _messages, agent_pc, response_text, emitted,
                   received, calls, cycles, ev_budget, adds>>
    /\ UNCHANGED <<clientVars, registryVars, confirmation, read, sums, cliVars>>

\* ---- main.py
\* main: without a prompt nothing runs; with one, asyncio.run(cli.run_single(prompt))
\* builds an Agent and enters its scope.
Main ==
    /\ cli_pc = "main"
    /\ \E p \in CliPrompts :
         /\ cli_prompt' = p
         /\ IF p = None \/ p = ""
            THEN cli_pc' = "exited" /\ scope' = scope
            ELSE cli_pc' = "consuming" /\ scope' = "inside"
    /\ UNCHANGED <<consumed, cli_final, exit_code>>
    /\ UNCHANGED <<_system_prompt, _messages, agent_pc, response_text, emitted,
                   received, calls, cycles, ev_budget, adds, _client, connections>>
    /\ UNCHANGED <<clientVars, registryVars, confirmation, read, sums>>

\* The event types the body of the loop in _process_message handles before it
\* reaches `AgentEventType.TOOL_CALL_START`, which the enum does not have.
CliHandled == {"text_delta", "text_complete", "agent_error"}

\* The body of `async for event in self.agent.run(message)` on the next event.
CliConsume ==
    /\ cli_pc = "consuming"
    /\ consumed < Len(emitted)
    /\ LET event == emitted[consumed + 1] IN
         IF event.type \in CliHandled
         THEN /\ consumed' = consumed + 1
              /\ cli_final' = IF event.type = "text_complete" THEN event.data.content
                              ELSE cli_final
              /\ cli_pc' = cli_pc
         ELSE /\ cli_pc' = "raised"
              /\ UNCHANGED <<consumed, cli_final>>
    /\ UNCHANGED <<cli_prompt, exit_code>>
    /\ UNCHANGED agentVars
    /\ UNCHANGED <<clientVars, registryVars, confirmation, read, sums>>

\* The `async with` block of run_single is left, by the return of _process_message
\* or by an exception of the loop body or of run; __aexit__ closes the client, and
\* main exits: with a traceback after an exception, with 1 when the result is None.
CliLeave ==
    /\ cli_pc \in {"consuming", "raised"}
    /\ \/ cli_pc = "raised"
       \/ consumed = Len(emitted) /\ agent_pc \in {"ended", "raised"}
    /\ LET closed == close(_client, connections) IN
         /\ _client' = closed._client
         /\ connections' = closed.connections
    /\ scope' = "left"
    /\ IF cli_pc = "raised" \/ agent_pc = "raised"
       THEN cli_pc' = "crashed" /\ exit_code' = 1
       ELSE cli_pc' = "exited" /\ exit_code' = IF cli_final = None THEN 1 ELSE 0
    /\ UNCHANGED <<cli_prompt, consumed, cli_final>>
    /\ UNCHANGED <<_system_prompt, _messages, agent_pc, response_text, emitted,
                   received, calls, cycles, ev_budget, adds>>
    /\ UNCHANGED <<clientVars, registryVars, confirmation, read, sums>>

\* ------------------------------------------------------- specifications
\* One chat_completion call: any max_retries, either mode, either tools argument.
ClientInit ==
    /\ max_retries \in 0..MaxRetries
    /\ stream \in BOOLEAN
    /\ tools \in {"None", "True"}
    /\ pc = "start"
    /\ attempt = 0
    /\ finish_reason = None /\ usage = NoneObj /\ tool_calls = <<>>
    /\ log = <<>> /\ seen = <<>>
    /\ budget = MaxChunks
    /\ _tools = [n \in ToolNames |-> NoneObj] /\ last = NoneObj /\ ops = <<>>
    /\ confirmation = NoneObj
    /\ _system_prompt = "" /\ _messages = <<>> /\ agent_pc = "idle"
    /\ response_text = "" /\ emitted = <<>> /\ received = <<>> /\ calls = <<>>
    /\ cycles = 0 /\ ev_budget = 0
    /\ adds = <<>> /\ _client = None /\ connections = [created |-> 0, closed |-> 0]
    /\ scope = "outside"
    /\ read = NoneObj /\ sums = NoneObj
    /\ cli_pc = "none" /\ cli_prompt = None /\ consumed = 0 /\ cli_final = None
    /\ exit_code = 0

ClientNext ==
    \/ Start
    \/ RequestStream
    \/ RequestNonStream
    \/ RequestFails
    \/ RecvChunk
    \/ StreamFails
    \/ StreamEnds
    \/ BackoffDone

ClientSpec == ClientInit /\ [][ClientNext]_vars

\* A registry as ToolRegistry() builds it: no tool registered.
RegistryInit ==
    /\ _tools = [n \in ToolNames |-> NoneObj]
    /\ last = NoneObj
    /\ ops = <<>>
    /\ max_retries = 0 /\ stream = FALSE /\ tools = "None" /\ pc = "idle"
    /\ attempt = 0 /\ finish_reason = None /\ usage = NoneObj /\ tool_calls = <<>>
    /\ log = <<>> /\ seen = <<>> /\ budget = 0
    /\ confirmation = NoneObj
    /\ _system_prompt = "" /\ _messages = <<>> /\ agent_pc = "idle"
    /\ response_text = "" /\ emitted = <<>> /\ received = <<>> /\ calls = <<>>
    /\ cycles = 0 /\ ev_budget = 0
    /\ adds = <<>> /\ _client = None /\ connections = [created |-> 0, closed |-> 0]
    /\ scope = "outside"
    /\ read = NoneObj /\ sums = NoneObj
    /\ cli_pc = "none" /\ cli_prompt = None /\ consumed = 0 /\ cli_final = None
    /\ exit_code = 0

RegistryNext ==
    \/ Register
    \/ Unregister
    \/ GetSchemas
    \/ Invoke

RegistrySpec == RegistryInit /\ [][RegistryNext]_vars

\* No get_confirmation call yet.
ContractInit ==
    /\ confirmation = NoneObj
    /\ max_retries = 0 /\ stream = FALSE /\ tools = "None" /\ pc = "idle"
    /\ attempt = 0 /\ finish_reason = None /\ usage = NoneObj /\ tool_calls = <<>>
    /\ log = <<>> /\ seen = <<>> /\ budget = 0
    /\ _tools = [n \in ToolNames |-> NoneObj] /\ last = NoneObj /\ ops = <<>>
    /\ _system_prompt = "" /\ _messages = <<>> /\ agent_pc = "idle"
    /\ response_text = "" /\ emitted = <<>> /\ received = <<>> /\ calls = <<>>
    /\ cycles = 0 /\ ev_budget = 0
    /\ adds = <<>> /\ _client = None /\ connections = [created |-> 0, closed |-> 0]
    /\ scope = "outside"
    /\ read = NoneObj /\ sums = NoneObj
    /\ cli_pc = "none" /\ cli_prompt = None /\ consumed = 0 /\ cli_final = None
    /\ exit_code = 0

ContractNext ==
    \/ GetConfirmation

ContractSpec == ContractInit /\ [][ContractNext]_vars

\* A file, the params of an invocation and the token count of what will be rendered.
ReadFileInit ==
    /\ \E file \in Files, params \in ReadParamsSet, token_count \in TokenCounts :
         read = [file |-> file, params |-> params, token_count |-> token_count,
                 raised |-> FALSE, decoded |-> FALSE, result |-> NoneObj]
    /\ sums = NoneObj
    /\ confirmation = NoneObj
    /\ max_retries = 0 /\ stream = FALSE /\ tools = "None" /\ pc = "idle"
    /\ attempt = 0 /\ finish_reason = None /\ usage = NoneObj /\ tool_calls = <<>>
    /\ log = <<>> /\ seen = <<>> /\ budget = 0
    /\ _tools = [n \in ToolNames |-> NoneObj] /\ last = NoneObj /\ ops = <<>>
    /\ _system_prompt = "" /\ _messages = <<>> /\ agent_pc = "idle"
    /\ response_text = "" /\ emitted = <<>> /\ received = <<>> /\ calls = <<>>
    /\ cycles = 0 /\ ev_budget = 0
    /\ adds = <<>> /\ _client = None /\ connections = [created |-> 0, closed |-> 0]
    /\ scope = "outside"
    /\ cli_pc = "none" /\ cli_prompt = None /\ consumed = 0 /\ cli_final = None
    /\ exit_code = 0

ReadFileNext ==
    \/ ExecuteReadFile

ReadFileSpec == ReadFileInit /\ [][ReadFileNext]_vars

\* Three usages, not yet added.
UsageInit ==
    /\ \E a \in Usages, b \in Usages, c \in Usages :
         sums = [a |-> a, b |-> b, c |-> c, added |-> FALSE,
                 ab |-> NoneObj, ba |-> NoneObj, ab_c |-> NoneObj, a_bc |-> NoneObj]
    /\ read = NoneObj
    /\ confirmation = NoneObj
    /\ max_retries = 0 /\ stream = FALSE /\ tools = "None" /\ pc = "idle"
    /\ attempt = 0 /\ finish_reason = None /\ usage = NoneObj /\ tool_calls = <<>>
    /\ log = <<>> /\ seen = <<>> /\ budget = 0
    /\ _tools = [n \in ToolNames |-> NoneObj] /\ last = NoneObj /\ ops = <<>>
    /\ _system_prompt = "" /\ _messages = <<>> /\ agent_pc = "idle"
    /\ response_text = "" /\ emitted = <<>> /\ received = <<>> /\ calls = <<>>
    /\ cycles = 0 /\ ev_budget = 0
    /\ adds = <<>> /\ _client = None /\ connections = [created |-> 0, closed |-> 0]
    /\ scope = "outside"
    /\ cli_pc = "none" /\ cli_prompt = None /\ consumed = 0 /\ cli_final = None
    /\ exit_code = 0

UsageNext ==
    \/ AddUp

UsageSpec == UsageInit /\ [][UsageNext]_vars

\* A ContextManager as ContextManager() builds it: the system prompt, no message.
ContextInit ==
    /\ _system_prompt \in SystemPrompts
    /\ _messages = <<>> /\ adds = <<>>
    /\ agent_pc = "idle"
    /\ response_text = "" /\ emitted = <<>> /\ received = <<>> /\ calls = <<>>
    /\ cycles = 0 /\ ev_budget = 0
    /\ _client = None /\ connections = [created |-> 0, closed |-> 0]
    /\ scope = "outside"
    /\ read = NoneObj /\ sums = NoneObj
    /\ cli_pc = "none" /\ cli_prompt = None /\ consumed = 0 /\ cli_final = None
    /\ exit_code = 0
    /\ confirmation = NoneObj
    /\ max_retries = 0 /\ stream = FALSE /\ tools = "None" /\ pc = "idle"
    /\ attempt = 0 /\ finish_reason = None /\ usage = NoneObj /\ tool_calls = <<>>
    /\ log = <<>> /\ seen = <<>> /\ budget = 0
    /\ _tools = [n \in ToolNames |-> NoneObj] /\ last = NoneObj /\ ops = <<>>

ContextNext ==
    \/ AddUserMessage
    \/ AddAssistantMessage
    \/ AddToolResult

ContextSpec == ContextInit /\ [][ContextNext]_vars

\* An agent as Agent() builds it: an empty history, no cycle begun. It is used
\* either on its own, inside its `async with` scope, or by main, which has not
\* built it yet.
AgentInit ==
    /\ _system_prompt \in SystemPrompts
    /\ _messages = <<>>
    /\ agent_pc = "idle"
    /\ response_text = "" /\ emitted = <<>> /\ received = <<>> /\ calls = <<>>
    /\ cycles = 0
    /\ ev_budget = MaxEvents
    /\ adds = <<>> /\ _client = None /\ connections = [created |-> 0, closed |-> 0]
    /\ cli_pc \in {"none", "main"}
    /\ scope = IF cli_pc = "none" THEN "inside" ELSE "outside"
    /\ read = NoneObj /\ sums = NoneObj
    /\ cli_prompt = None /\ consumed = 0 /\ cli_final = None
    /\ exit_code = 0
    /\ confirmation = NoneObj
    /\ max_retries = 0 /\ stream = TRUE /\ tools = "True" /\ pc = "idle"
    /\ attempt = 0 /\ finish_reason = None /\ usage = NoneObj /\ tool_calls = <<>>
    /\ log = <<>> /\ seen = <<>> /\ budget = 0
    /\ _tools = [n \in ToolNames |-> NoneObj] /\ last = NoneObj /\ ops = <<>>

AgentNext ==
    \/ Run
    \/ EnterLoop
    \/ PullRaises
    \/ PullEvent
    \/ LoopExit
    \/ ExitScope
    \/ Main
    \/ CliConsume
    \/ CliLeave

AgentSpec == AgentInit /\ [][AgentNext]_vars

\* ================================================================ claims
\* ---- reading the history
Last(l) == l[Len(l)]
Front(l) == SubSeq(l, 1, Len(l) - 1)
IsYield(x) == x.kind = "yield"
IsRequest(x) == x.kind = "request"
IsSleep(x) == x.kind = "sleep"
IsTransientFail(x) == x.kind = "fail" /\ x.err \in {"RateLimitError", "APIConnectionError"}
IsTerminal(x) == x.kind = "yield" /\ x.event.type \in {"message_complete", "error"}
IsError(x) == x.kind = "yield" /\ x.event.type = "error"
IsComplete(x) == x.kind = "yield" /\ x.event.type = "message_complete"

\* The positions in the history of the entries that satisfy Is, in order.
RECURSIVE PositionsFrom(_, _)
PositionsFrom(Is(_), i) ==
    IF i > Len(log) THEN <<>>
    ELSE (IF Is(log[i]) THEN <<i>> ELSE <<>>) \o PositionsFrom(Is, i + 1)
Positions(Is(_)) == PositionsFrom(Is, 1)
Count(Is(_)) == Len(Positions(Is))

\* The generator has finished: by `return` or by an exception leaving it.
Closed == pc \in {"done", "raised"}

\* C1 (as claimed): for a call with a well-formed tools argument, once the generator
\* has finished, the events it yielded hold exactly one terminal event (MessageComplete
\* or Error), and it is the last event yielded; none is yielded before that.
C1_OneTerminalEventLast ==
    tools # "True" =>
    /\ Closed => /\ Count(IsTerminal) = 1
                 /\ log # <<>> /\ IsTerminal(log[Len(log)])
    /\ ~Closed => Count(IsTerminal) = 0

\* C2: with K the number of attempts that failed transiently and K <= max_retries,
\* exactly K sleeps have occurred, the k-th of 2^(k-1) seconds, the k-th sleep after
\* the k-th failure and before the (k+1)-th provider request; no request k+1 is issued
\* without the k-th sleep.
C2_BackoffSchedule ==
    LET F == Positions(IsTransientFail)
        S == Positions(IsSleep)
        R == Positions(IsRequest)
        K == Len(F)
    IN K <= max_retries =>
        /\ Len(S) = K
        /\ Len(R) <= K + 1
        /\ \A k \in 1..K :
             /\ log[S[k]].delay = 2 ^ (k - 1)
             /\ R[k] < F[k] /\ F[k] < S[k]
             /\ k + 1 <= Len(R) => S[k] < R[k + 1]

\* Two transient failures of different kinds, both slept on, and a third request issued.
C2_Witness ==
    /\ Count(IsTransientFail) = 2 /\ Count(IsSleep) = 2 /\ Count(IsRequest) = 3
    /\ log[Positions(IsTransientFail)[1]].err # log[Positions(IsTransientFail)[2]].err

\* C3: a call issues at most max_retries + 1 requests, and when the attempt numbered
\* max_retries fails transiently the history ends there with one Error event: no sleep
\* and no request follows, and the call holds no other Error.
C3_RetriesExhausted ==
    /\ Count(IsRequest) <= max_retries + 1
    /\ LET F == Positions(IsTransientFail) IN
       Len(F) = max_retries + 1 =>
           /\ Len(log) = Last(F) + 1
           /\ IsError(Last(log))
           /\ Count(IsError) = 1
           /\ Count(IsSleep) = max_retries
           /\ pc = "done"

C3_Witness ==
    /\ max_retries = 2 /\ Count(IsRequest) = 3 /\ Count(IsTransientFail) = 3
    /\ pc = "done"

\* C4: a non-transient API error, at whatever attempt, is followed by exactly one Error
\* event and nothing else: no sleep and no request after it.
C4_PermanentErrorStops ==
    \A i \in 1..Len(log) :
        (log[i].kind = "fail" /\ log[i].err = "APIError") =>
            /\ Len(log) = i + 1
            /\ IsError(log[i + 1])
            /\ Count(IsError) = 1
            /\ pc = "done"

\* A permanent error at the third attempt, in the middle of a stream that had yielded.
C4_Witness ==
    /\ attempt = 2 /\ stream /\ Len(log) > 2
    /\ log[Len(log) - 1] = Failed("APIError")
    /\ IsYield(log[Len(log) - 2])

\* C5 (as claimed): no exception leaves chat_completion, and a call in which a failure
\* was the last thing to happen ends with an Error event.
C5_NoExceptionEscapes ==
    /\ pc # "raised"
    /\ (pc = "done" /\ ~IsComplete(log[Len(log)])) => IsError(log[Len(log)])
\* ---- what the chunks of one response supplied
RECURSIVE SuppliedUsage(_)
SuppliedUsage(chunks) ==
    IF chunks = <<>> THEN NoneObj
    ELSE LET u == Last(chunks).usage IN
         IF u # NoneObj
         THEN [completion_tokens |-> u.completion_tokens,
               prompt_tokens |-> u.prompt_tokens,
               total_tokens |-> u.total_tokens,
               cached_tokens |-> u.prompt_tokens_details.cached_tokens]
         ELSE SuppliedUsage(Front(chunks))

RECURSIVE SuppliedFinish(_)
SuppliedFinish(chunks) ==
    IF chunks = <<>> THEN None
    ELSE LET c == Last(chunks) IN
         IF c.choices # <<>> /\ c.choices[1].finish_reason \notin {None, ""}
         THEN c.choices[1].finish_reason
         ELSE SuppliedFinish(Front(chunks))

\* The argument fragments the deltas ds carry for index idx, concatenated in order.
RECURSIVE DeltaFragments(_, _)
DeltaFragments(ds, idx) ==
    IF ds = <<>> THEN ""
    ELSE LET d == Head(ds) IN
         (IF d.index = idx /\ d.function # NoneObj /\ d.function.arguments # None
          THEN d.function.arguments ELSE "") \o DeltaFragments(Tail(ds), idx)

RECURSIVE Fragments(_, _)
Fragments(chunks, idx) ==
    IF chunks = <<>> THEN ""
    ELSE (IF Head(chunks).choices = <<>> THEN ""
          ELSE DeltaFragments(Head(chunks).choices[1].tool_calls, idx))
         \o Fragments(Tail(chunks), idx)

\* The indices the chunks reference.
Referenced(chunks) ==
    {chunks[i].choices[1].tool_calls[j].index :
        <<i, j>> \in {p \in (1..Len(chunks)) \X (1..2) :
                        /\ chunks[p[1]].choices # <<>>
                        /\ p[2] <= Len(chunks[p[1]].choices[1].tool_calls)}}

\* A streaming response has ended without failure.
StreamCompleted == stream /\ pc = "done" /\ IsComplete(Last(log))

\* C6: when a streaming response ends without failure, the events yielded since its
\* request hold exactly one MessageComplete, it is the last of them (after every
\* TextDelta and tool-call event), and it carries the finish reason and the usage the
\* chunks supplied, usage on a chunk without choices included, and None for a value no
\* chunk supplied.
C6_OneCompleteCarriesSupplied ==
    StreamCompleted =>
        LET r == Last(Positions(IsRequest))
            ev == Last(log).event
        IN /\ \A i \in (r + 1)..(Len(log) - 1) : IsYield(log[i]) /\ ~IsTerminal(log[i])
           /\ Count(IsComplete) = 1
           /\ ev.finish_reason = SuppliedFinish(seen)
           /\ ev.usage = SuppliedUsage(seen)

\* Text and a finish reason on one chunk, then the usage on a chunk without choices.
C6_Witness ==
    /\ StreamCompleted
    /\ seen = <<Chunk(NoneObj, <<Choice("stop", "b", <<>>)>>), Chunk(UsageFull, <<>>)>>
    /\ Last(log).event.usage # NoneObj /\ Last(log).event.finish_reason = "stop"
    /\ Len(log) >= 3 /\ log[Len(log) - 1].event.type = "text_delta"

\* C7: while a streamed response is consumed and at its end, the accumulator holds an
\* entry for each index the chunks referenced, and the arguments of each entry are the
\* concatenation of that index's fragments in arrival order.
C7_FragmentationInvariance ==
    (stream /\ pc # "raised") =>
        /\ {tool_calls[i].index : i \in 1..Len(tool_calls)} = Referenced(seen)
        /\ \A i \in 1..Len(tool_calls) :
             tool_calls[i].arguments = Fragments(seen, tool_calls[i].index)

\* The arguments of index 0 arrived in two chunks, the second of which also carries
\* text and a fragment of index 1.
C7_Witness ==
    /\ StreamCompleted /\ Len(seen) = 2 /\ Len(tool_calls) = 2
    /\ tool_calls[1].index = 0 /\ tool_calls[1].arguments = "{}"
    /\ tool_calls[2].index = 1 /\ tool_calls[2].arguments = "{"
    /\ \E i \in 1..Len(log) : IsYield(log[i]) /\ log[i].event.type = "text_delta"

\* C8 (as claimed): in non-streaming mode a request whose response has a choice (and
\* whose usage, when present, is complete) yields exactly one event, a MessageComplete
\* that carries the text when present, the finish reason, the usage, and every tool
\* call of the response.
C8_NonStreamCarriesAll ==
    (~stream /\ Closed /\ seen # <<>>
        /\ seen[1].choices # <<>>
        /\ seen[1].usage # UsageNoDetails) =>
        LET message == seen[1].choices[1] IN
        /\ Count(IsYield) = 1
        /\ IsComplete(Last(log))
        /\ Last(log).event.text_delta = message.content
        /\ Last(log).event.finish_reason = message.finish_reason
        /\ message.tool_calls # <<>> => Last(log).event.tool_call # NoneObj
\* C9: invoke returns a ToolResult with success = false, and raises nothing, when the
\* name is not registered, when validate_params reported errors, and when the tool's
\* execute raised.
C9_FailuresAreResults ==
    (last # NoneObj /\ (~last.registered \/ last.validation_errors # <<>>
                                         \/ last.execute_raised)) =>
        /\ ~last.raised
        /\ last.result # NoneObj
        /\ last.result.success = FALSE
        /\ last.result.error # None

\* read_file passed validation and its execute raised.
C9_Witness ==
    /\ last # NoneObj /\ last.name = "read_file" /\ last.params = Params("f", 1, TRUE)
    /\ _tools["read_file"] = ReadFileTool
    /\ last.execute_called /\ last.execute_raised
    /\ last.result # NoneObj /\ ~last.result.success

\* C10 (as claimed): no invoke raises, whatever the name, the params and the
\* registered tool; every invoke returns a ToolResult.
C10_InvokeNeverRaises ==
    last # NoneObj => ~last.raised /\ last.result # NoneObj

\* ---- the registry: validation, lookup, schemas, confirmation
\* The errors of l, in order, separated by "; ".
RECURSIVE Listed(_, _)
Listed(text, l) ==
    IF l = <<>> THEN text ELSE Listed(text \o "; " \o Head(l), Tail(l))

\* C11: when validate_params returns a non-empty list for the looked-up tool, invoke
\* returns a failure result that lists every error of the list and execute is not
\* called; execute is called only with params for which validate_params returned the
\* empty list.
C11_ValidationGatesExecute ==
    (last # NoneObj /\ last.tool # NoneObj) =>
        LET v == validate_params(last.tool, last.params) IN
        /\ (~v.raised /\ v.errors # <<>>) =>
              /\ ~last.execute_called
              /\ last.result # NoneObj /\ ~last.result.success
              /\ last.result.metadata.validation_errors = v.errors
              /\ last.result.error = Listed("Invalid parameters for tool " \o last.name
                                                \o ": " \o Head(v.errors),
                                            Tail(v.errors))
        /\ last.execute_called => (~v.raised /\ v.errors = <<>>)

\* read_file was invoked without a path and with offset 0: two errors, no execute.
C11_Witness ==
    /\ last # NoneObj /\ last.tool = ReadFileTool
    /\ last.params = Params(None, 0, TRUE)
    /\ Len(last.validation_errors) = 2
    /\ ~last.execute_called /\ last.result # NoneObj /\ ~last.result.success

\* The tool registered under name after the first k operations of the history: the
\* tool of the latest register of the name, unless an unregister of it came later.
RECURSIVE Registered(_, _)
Registered(name, k) ==
    IF k = 0 THEN NoneObj
    ELSE IF ops[k].op = "register" /\ ops[k].name = name THEN ops[k].tool
    ELSE IF ops[k].op = "unregister" /\ ops[k].name = name THEN NoneObj
    ELSE Registered(name, k - 1)

\* C12: after any sequence of register and unregister calls, get(name) returns the
\* tool most recently registered under the name if no unregister of it came since,
\* and nothing otherwise; unregister returns true exactly when the name was
\* registered at the time of the call; a register under a name in use replaces the
\* tool, so that the registry holds at most one tool for any name.
C12_LatestRegistrationWins ==
    /\ \A name \in ToolNames \cup {"unknown"} : get(name) = Registered(name, Len(ops))
    /\ \A k \in 1..Len(ops) :
          ops[k].op = "unregister" =>
              (ops[k].returned <=> Registered(ops[k].name, k - 1) # NoneObj)
    /\ \A t \in get_tools : get(t.name) = t
    /\ \A t, u \in get_tools : t.name = u.name => t = u

\* Two tools were registered under read_file and get returns the second.
C12_Witness ==
    /\ Len(ops) = 2
    /\ ops[1] = OpEntry("register", "read_file", ReadFileTool, FALSE)
    /\ ops[2] = OpEntry("register", "read_file", Tool("read_file", "write", "dict"), FALSE)
    /\ get("read_file") = Tool("read_file", "write", "dict")

\* The schema kinds the claim names: a pydantic model and a plain JSON-schema mapping.
DeclaredSchemas == {"ReadFileParams", "dict"}

\* C13 (as claimed): to_openai_schema returns an object with name, description and
\* parameters for every registered tool whose schema is a pydantic model or a plain
\* mapping, and get_schemas returns one such object per registered tool and does not
\* raise.
C13_SchemaForEveryTool ==
    /\ \A t \in get_tools :
          t.schema \in DeclaredSchemas =>
              /\ ~to_openai_schema(t).raised
              /\ to_openai_schema(t).value.name = t.name
    /\ \A k \in 1..Len(ops) :
          (ops[k].op = "get_schemas"
              /\ \A t \in ops[k].returned.registered : t.schema \in DeclaredSchemas) =>
              /\ ~ops[k].returned.raised
              /\ Cardinality(ops[k].returned.schemas)
                    = Cardinality(ops[k].returned.registered)

\* ToolKind values for which Tool.is_mutating holds, as the claim lists them.
MutatingKinds == {"write", "shell", "network", "memory"}

\* C14: for every tool kind, is_mutating is true iff the kind is write, shell,
\* network or memory; get_confirmation returns a ToolConfirmation with the tool's
\* name, the params and the description iff is_mutating is true, and nothing
\* otherwise, so a tool of kind read or mcp never produces a confirmation.
C14_ConfirmationIffMutating ==
    confirmation # NoneObj =>
        LET tool == confirmation.tool IN
        /\ confirmation.is_mutating <=> tool.kind \in MutatingKinds
        /\ confirmation.is_mutating =>
              /\ confirmation.returned # NoneObj
              /\ confirmation.returned.tool_name = tool.name
              /\ confirmation.returned.params = confirmation.params
              /\ confirmation.returned.description = Description(tool)
        /\ ~confirmation.is_mutating => confirmation.returned = NoneObj
        /\ tool.kind \in {"read", "mcp"} => confirmation.returned = NoneObj

\* get_confirmation on a tool of kind shell returned a ToolConfirmation.
C14_Witness ==
    /\ confirmation # NoneObj
    /\ confirmation.tool.kind = "shell"
    /\ confirmation.returned = ToolConfirmation(confirmation.tool.name,
                                                confirmation.params,
                                                Description(confirmation.tool))

\* C15 (as claimed): execute of a mutating tool is called only in an invocation in
\* which get_confirmation was called before.
C15_ConfirmationBeforeExecute ==
    (last # NoneObj /\ last.execute_called /\ last.tool.kind \in MutatingKinds) =>
        last.confirmation_called

\* ---- the orchestrator: one run cycle
\* The positions of the events of one type in a sequence of events, in order.
RECURSIVE TypedFrom(_, _, _)
TypedFrom(events, type, i) ==
    IF i > Len(events) THEN <<>>
    ELSE (IF events[i].type = type THEN <<i>> ELSE <<>>) \o TypedFrom(events, type, i + 1)
Typed(events, type) == TypedFrom(events, type, 1)

\* The contents of the TextDelta AgentEvents of the cycle, concatenated in the order
\* of their emission.
RECURSIVE ConcatFrom(_)
ConcatFrom(i) ==
    IF i > Len(emitted) THEN ""
    ELSE (IF emitted[i].type = "text_delta" THEN emitted[i].data.content ELSE "")
         \o ConcatFrom(i + 1)
DeltaText == ConcatFrom(1)

\* run has returned.
CycleEnded == agent_pc = "ended"

\* C16 (as claimed): for every ToolCallComplete received in a cycle the history holds
\* a tool-role message keyed by the call id and a further chat_completion call was
\* made whose messages contain it.
C16_ToolCallsAreDispatched ==
    CycleEnded =>
        \A i \in 1..Len(received) :
              received[i].type = "tool_call_complete" =>
                  /\ \E j \in 1..Len(_messages) :
                        /\ _messages[j].role = "tool"
                        /\ _messages[j].tool_call_id = received[i].tool_call.call_id
                  /\ Len(calls) > 1
                  /\ \E m \in 1..Len(calls[Len(calls)].messages) :
                        calls[Len(calls)].messages[m].role = "tool"

\* C17: when the transport delivers an Error event the cycle emits exactly one
\* AgentError, which carries that error, and the cycle makes no chat_completion call
\* beyond its first.
C17_ErrorForwardedOnce ==
    \A i \in 1..Len(received) :
        received[i].type = "error" =>
            LET errors == Typed(emitted, "agent_error") IN
            /\ Len(errors) = 1
            /\ emitted[errors[1]].data.error = received[i].error
            /\ Len(calls) = 1

\* The stream ended in an Error after some text, and run returned.
C17_Witness ==
    /\ CycleEnded
    /\ Len(received) = 2
    /\ received[1] = stream_text("a")
    /\ received[2] = stream_error("API error")
    /\ Typed(emitted, "agent_error") # <<>>
    /\ Len(calls) = 1

\* C18 (as claimed): when run has returned, the cycle appended an assistant message
\* iff it accumulated text; a cycle without text appended none and emitted no
\* TextComplete.
C18_AssistantMessageIffText ==
    CycleEnded =>
        /\ _messages[Len(_messages)].role = "assistant" <=> response_text # ""
        /\ response_text = "" => Typed(emitted, "text_complete") = <<>>

\* C19: the response of AgentEnd is the concatenation, in emission order, of the
\* contents of the cycle's TextDelta AgentEvents, and None when there is none; the
\* content of TextComplete, when emitted, is the same string.
C19_ResponseIsConcatenation ==
    /\ \A i \in 1..Len(emitted) :
          emitted[i].type = "agent_end" =>
              emitted[i].data.response
                  = (IF Typed(emitted, "text_delta") = <<>> THEN None ELSE DeltaText)
    /\ \A i \in 1..Len(emitted) :
          emitted[i].type = "text_complete" => emitted[i].data.content = DeltaText
    /\ CycleEnded => Typed(emitted, "agent_end") # <<>>

\* "a" and "b" were streamed in this order and AgentEnd carries "ab".
C19_Witness ==
    /\ CycleEnded
    /\ Len(Typed(emitted, "text_delta")) = 2
    /\ emitted[2] = text_delta("a")
    /\ emitted[Len(emitted)] = agent_end("ab")

RECURSIVE ForwardedFrom(_)
ForwardedFrom(i) ==
    IF i > Len(emitted) THEN <<>>
    ELSE (IF emitted[i].type = "text_delta"
          THEN <<<<"text", emitted[i].data.content>>>>
          ELSE IF emitted[i].type = "agent_error"
          THEN <<<<"error", emitted[i].data.error>>>>
          ELSE <<>>) \o ForwardedFrom(i + 1)

\* The non-empty TextDelta and the Error StreamEvents among received[i..], likewise.
RECURSIVE DeliveredFrom(_)
DeliveredFrom(i) ==
    IF i > Len(received) THEN <<>>
    ELSE (IF received[i].type = "text_delta" /\ received[i].text_delta # ""
          THEN <<<<"text", received[i].text_delta>>>>
          ELSE IF received[i].type = "error"
          THEN <<<<"error", received[i].error>>>>
          ELSE <<>>) \o DeliveredFrom(i + 1)

\* C21: the TextDelta and AgentError AgentEvents emitted in a cycle are, in order,
\* exactly the non-empty TextDelta and the Error StreamEvents received in the cycle:
\* none is reordered, skipped or emitted twice.
C21_ForwardedInOrder ==
    ForwardedFrom(1) = DeliveredFrom(1)

\* "b", a tool call and "a" were received, and "b" and "a" were forwarded in this order.
C21_Witness ==
    /\ Len(received) = 3
    /\ received[1] = stream_text("b")
    /\ received[2].type = "tool_call_complete"
    /\ received[3] = stream_text("a")
    /\ ForwardedFrom(1) = << <<"text", "b">>, <<"text", "a">> >>

\* C22 (as claimed): no exception leaves run; a cycle that has stopped has emitted
\* AgentEnd as its last event.
C22_EveryCycleEndsWithAgentEnd ==
    /\ agent_pc # "raised"
    /\ agent_pc = "ended" => emitted[Len(emitted)].type = "agent_end"

\* ---- the conversation history
\* The wire messages get_messages returns now.
Wire == get_messages(_messages)
PromptLen == IF _system_prompt # "" THEN 1 ELSE 0

\* The wire message m is the one of the add call a: its role, its content when the
\* call gave one, its tool_call_id when the call gave one.
WireOf(m, a) ==
    /\ m.role = a.op
    /\ ("content" \in DOMAIN m) => m.content = a.message
    /\ (a.message # None /\ a.message # "") => "content" \in DOMAIN m
    /\ (a.op = "tool") => ("tool_call_id" \in DOMAIN m /\ m.tool_call_id = a.tool_call_id)

IsPrefix(l, m) == Len(l) <= Len(m) /\ SubSeq(m, 1, Len(l)) = l

\* C23: after any sequence of add_user_message, add_assistant_message and
\* add_tool_result calls, get_messages returns the system prompt first, when there is
\* one, and then exactly one wire message per add call, in call order; and the list
\* returned before a call is a prefix of the list returned after it.
C23_HistoryIsAppendOnly ==
    /\ [](/\ Len(Wire) = PromptLen + Len(adds)
          /\ PromptLen = 1 => Wire[1] = [role |-> "system", content |-> _system_prompt]
          /\ \A k \in 1..Len(adds) : WireOf(Wire[PromptLen + k], adds[k]))
    /\ [][IsPrefix(Wire, Wire')]_vars

\* A user message, an assistant message and a tool result were added, in this order,
\* to a history with a system prompt.
C23_Witness ==
    /\ _system_prompt # ""
    /\ Len(adds) = 3
    /\ adds[1].op = "user" /\ adds[2].op = "assistant" /\ adds[3].op = "tool"
    /\ adds[2].message = "ab"
    /\ Len(Wire) = 4 /\ Wire[4].role = "tool"

\* ---- token usage
\* C29: TokenUsage addition sums each of the four counters field by field, is
\* associative and commutative, and modifies neither operand.
C29_AdditionIsFieldwise ==
    /\ []((sums # NoneObj /\ sums.added) =>
            /\ sums.ab.completion_tokens
                  = sums.a.completion_tokens + sums.b.completion_tokens
            /\ sums.ab.prompt_tokens = sums.a.prompt_tokens + sums.b.prompt_tokens
            /\ sums.ab.total_tokens = sums.a.total_tokens + sums.b.total_tokens
            /\ sums.ab.cached_tokens = sums.a.cached_tokens + sums.b.cached_tokens
            /\ sums.ab_c = sums.a_bc
            /\ sums.ab = sums.ba)
    /\ [][sums # NoneObj =>
            (sums'.a = sums.a /\ sums'.b = sums.b /\ sums'.c = sums.c)]_vars

\* Two different usages with cached tokens were added.
C29_Witness ==
    /\ sums # NoneObj /\ sums.added
    /\ sums.a = TokenUsage(1, 0, 1, 0)
    /\ sums.b = TokenUsage(0, 1, 1, 1)
    /\ sums.c = TokenUsage(1, 1, 2, 1)
    /\ sums.ab_c = TokenUsage(2, 2, 4, 2)

\* ---- read_file
\* execute has returned a result for a readable text file with at least one line.
ReadText ==
    /\ read # NoneObj /\ read.result # NoneObj
    /\ read.decoded /\ Len(read.file.lines) > 0

\* Lines k .. upto of the file (1-indexed), each prefixed with its own number.
RECURSIVE NumberedLines(_, _, _)
NumberedLines(lines, k, upto) ==
    IF k > upto THEN ""
    ELSE Width6(k) \o ": " \o lines[k] \o (IF k < upto THEN "\n" ELSE "")
         \o NumberedLines(lines, k + 1, upto)

\* C25 (as claimed): for a file of Z lines, an offset o between 1 and Z and a limit l
\* (or none), the output is lines o to min(o + l - 1, Z) (to Z without a limit), each
\* prefixed with its 1-indexed line number, under the header 'Lines X to Y of Z'
\* whenever the range is a strict subset of the file.
C25_SelectedLinesNumbered ==
    (ReadText /\ read.params.offset <= Len(read.file.lines)
              /\ read.token_count <= MAX_OUPUT_TOKENS) =>
        LET Z == Len(read.file.lines)
            o == read.params.offset
            y == IF read.params.has_limit /\ o + read.params.limit - 1 < Z
                 THEN o + read.params.limit - 1 ELSE Z
            header == IF o > 1 \/ y < Z
                      THEN "Lines " \o ToString(o) \o " to " \o ToString(y) \o " of "
                           \o ToString(Z) \o "\n\n"
                      ELSE ""
        IN /\ read.result.success
           /\ read.result.output = header \o NumberedLines(read.file.lines, o, y)

\* C26 (as claimed): when the rendered output exceeds the token ceiling the result is
\* a success whose truncated flag is true; it is never an error result.
C26_TruncationIsSuccess ==
    (ReadText /\ read.token_count > MAX_OUPUT_TOKENS) =>
        /\ read.result.success
        /\ read.result.truncated

\* The size as the binary-file message shows it, for the binary files of the model.
ShownSize(file) ==
    CASE file.size = 8192 -> "8.00KB"
      [] file.size = 2097152 -> "2.00MB"
      [] OTHER -> "?"

\* C27: a file with a null byte in its first 8KB gets an error result that names the
\* file and its size, and is never decoded; the checks run in the order missing,
\* not a file, over the size ceiling, binary, and the first that fails decides the
\* error.
C27_ChecksInOrder ==
    (read # NoneObj /\ read.result # NoneObj) =>
        LET file == read.file
            missing == ~file.exists
            not_file == ~file.is_file
            too_large == file.size > 10 * 1024 * 1024
            binary == file.null_at >= 0 /\ file.null_at < 8 * 1024
        IN /\ missing => read.result.error = "File not found at: " \o file.name
           /\ (~missing /\ not_file) =>
                 read.result.error = "Path is not a file: " \o file.name
           /\ (~missing /\ ~not_file /\ too_large) =>
                 read.result.error = "File is too large: 10.0MB.Max allowed size is 10MB"
           /\ (~missing /\ ~not_file /\ ~too_large /\ binary) =>
                 read.result.error = "Cannot read binary file: " \o file.name \o " ("
                                        \o ShownSize(file)
                                        \o ")This tool only reads text files."
           /\ (missing \/ not_file \/ too_large \/ binary) =>
                 /\ ~read.result.success
                 /\ ~read.decoded

\* A 2 MB file whose first null byte is the last byte of the first 8KB was rejected.
C27_Witness ==
    /\ read # NoneObj /\ read.result # NoneObj
    /\ read.file.name = "b.png" /\ read.file.null_at = 8191
    /\ ~read.decoded
    /\ read.result.error = "Cannot read binary file: b.png (2.00MB)This tool only reads text files."

\* C28: for an empty file the result is a success whose output is "File is empty" and
\* whose metadata is {lines: 0}, whatever the offset and the limit; the output is
\* never the empty string.
C28_EmptyFileMessage ==
    (read # NoneObj /\ read.result # NoneObj
        /\ read.file.exists /\ read.file.is_file /\ read.file.size = 0) =>
        /\ read.result.success
        /\ read.result.output = "File is empty"
        /\ read.result.metadata = [lines |-> 0]
        /\ read.result.error = None
        /\ ~read.result.truncated

\* The empty file was read with offset 5 and limit 2.
C28_Witness ==
    /\ read # NoneObj /\ read.result # NoneObj
    /\ read.file = TextFile(0)
    /\ read.params = ReadParams(5, TRUE, 2)
    /\ read.result.output = "File is empty"

\* ---- the connection and the scope of an Agent
\* Connections of the client that are open.
OpenConnections == connections.created - connections.closed

\* C24: the connection is made no earlier than the first pull of a chat_completion
\* call; the client never has more than one connection open; and once the scope of
\* the Agent has been left, on any path, the connection is closed and none is open.
C24_ConnectionClosedWithScope ==
    /\ [](/\ OpenConnections \in {0, 1}
          /\ (_client # None) <=> (OpenConnections = 1)
          /\ cycles = 0 => connections.created = 0
          /\ scope = "left" => (_client = None /\ OpenConnections = 0))
    /\ [][connections'.created > connections.created =>
              (agent_pc = "streaming" /\ calls # <<>> /\ received = <<>>)]_vars

\* The scope was left by an exception in the second cycle: the one connection,
\* made in the first cycle and used again, is closed.
C24_Witness ==
    /\ scope = "left" /\ cli_pc = "none"
    /\ cycles = 2 /\ agent_pc = "raised" /\ received # <<>>
    /\ connections = [created |-> 1, closed |-> 1]

\* ---- main.py
\* C30 (as claimed): with a prompt the CLI runs exactly one cycle, its loop body runs
\* on every event of the cycle without raising, and the exit status is non-zero
\* exactly when no final response was produced; without a prompt no cycle runs.
C30_CliConsumesEveryEvent ==
    /\ cli_pc \notin {"raised", "crashed"}
    /\ (cli_pc = "exited" /\ cli_prompt \in UserMessages) =>
          /\ cycles = 1 /\ agent_pc = "ended"
          /\ consumed = Len(emitted)
          /\ (exit_code # 0) <=> (cli_final = None)
    /\ (cli_pc = "exited" /\ cli_prompt \notin UserMessages) =>
          /\ cycles = 0 /\ emitted = <<>> /\ exit_code = 0

\* ---- the tool calls of a streamed response
IsToolComplete(x) == x.kind = "yield" /\ x.event.type = "tool_call_complete"
IsToolStart(x) == x.kind = "yield" /\ x.event.type = "tool_call_start"
IsToolDelta(x) == x.kind = "yield" /\ x.event.type = "tool_call_delta"
IsText(x) == x.kind = "yield" /\ x.event.type = "text_delta"
IsChunkDerived(x) == IsText(x) \/ IsToolStart(x) \/ IsToolDelta(x)

\* An accumulator entry with a non-empty name and non-empty arguments.
HasNameAndArguments(tc) == tc.name # "" /\ tc.arguments # ""

\* C31: once the provider's stream has ended, the ToolCallComplete events are, one for
\* one and in order, the accumulator entries with a non-empty name and non-empty
\* arguments; each comes after every chunk-derived event and before the
\* MessageComplete; while the stream is still consumed there is none.
C31_CompleteForNamedWithArguments ==
    /\ (stream /\ pc = "receiving") => Count(IsToolComplete) = 0
    /\ StreamCompleted =>
         LET done == Positions(IsToolComplete)
             entries == SelectSeq(tool_calls, HasNameAndArguments)
         IN /\ Len(done) = Len(entries)
            /\ \A k \in 1..Len(done) :
                 /\ log[done[k]].event.tool_call.call_id = entries[k].id
                 /\ log[done[k]].event.tool_call.name = entries[k].name
                 /\ done[k] < Len(log)
                 /\ \A i \in 1..Len(log) : IsChunkDerived(log[i]) => i < done[k]

\* Index 0 got arguments and no name, index 1 a name and arguments: one
\* ToolCallComplete, for index 1, between the last delta and the MessageComplete.
C31_Witness ==
    /\ StreamCompleted /\ Len(tool_calls) = 2
    /\ tool_calls[1].name = "" /\ tool_calls[1].arguments = "{}"
    /\ tool_calls[2].name = "g" /\ tool_calls[2].arguments = "{"
    /\ Count(IsToolComplete) = 1
    /\ log[Len(log) - 1].event.tool_call.name = "g"
    /\ IsToolDelta(log[Len(log) - 2])

ChunkStep == stream /\ pc = "receiving" /\ seen' # seen
\* The chunk of the step, its tool-call deltas, and the entries the step yields.
StepChunk == Last(seen')
StepDeltas == IF StepChunk.choices = <<>> THEN <<>> ELSE StepChunk.choices[1].tool_calls
StepYields == SubSeq(log', Len(log) + 1, Len(log'))
\* Decoding the usage of the chunk raises before anything else is looked at.
UsageRaises(chunk) ==
    chunk.usage # NoneObj /\ chunk.usage.prompt_tokens_details = NoneObj

\* The index has an accumulator entry with a non-empty name.
Named(idx) ==
    \E i \in 1..Len(tool_calls) : tool_calls[i].index = idx /\ tool_calls[i].name # ""
CarriesName(d) == d.function # NoneObj /\ d.function.name \notin {None, ""}
CarriesArguments(d) == d.function # NoneObj /\ d.function.arguments \notin {None, ""}

\* The argument fragments one chunk can append to an entry.
ArgumentFragments == {"", "{", "}"}

\* C33 (as claimed): in a streaming response the accumulator holds an entry for
\* exactly the indices the chunks referenced; no step removes or reorders an entry; a
\* name that is non-empty stays what it is; and the arguments of an entry only grow by
\* a fragment appended at the end.
C33_AccumulatorEntriesStable ==
    /\ []((stream /\ pc # "raised") =>
            {tool_calls[i].index : i \in 1..Len(tool_calls)} = Referenced(seen))
    /\ [][(stream /\ pc = "receiving") =>
            \A i \in 1..Len(tool_calls) :
               /\ i <= Len(tool_calls')
               /\ tool_calls'[i].index = tool_calls[i].index
               /\ tool_calls[i].name # "" => tool_calls'[i].name = tool_calls[i].name
               /\ \E f \in ArgumentFragments :
                    tool_calls'[i].arguments = tool_calls[i].arguments \o f]_vars

\* C34 (as claimed): a chunk yields a ToolCallStart for exactly those of its deltas
\* that carry a name for an index without a name so far, and one ToolCallDelta per
\* argument fragment, in order, each carrying that fragment alone.
C34_StartOncePerIndex ==
    [][(ChunkStep /\ pc' # "raised") =>
         LET starts == SelectSeq(StepYields, IsToolStart)
             deltas == SelectSeq(StepYields, IsToolDelta)
             first == SelectSeq(StepDeltas, LAMBDA d : CarriesName(d) /\ ~Named(d.index))
             fragments == SelectSeq(StepDeltas, CarriesArguments)
         IN /\ Len(starts) = Len(first)
            /\ \A k \in 1..Len(starts) :
                 starts[k].event.tool_call.name = first[k].function.name
            /\ Len(deltas) = Len(fragments)
            /\ \A k \in 1..Len(deltas) :
                 deltas[k].event.tool_call.arguments_delta
                     = fragments[k].function.arguments]_vars

\* ---- the text of a streamed response
\* The non-empty content fragments of the chunks, in order.
RECURSIVE Contents(_)
Contents(chunks) ==
    IF chunks = <<>> THEN <<>>
    ELSE LET c == Head(chunks) IN
         (IF c.choices # <<>> /\ ~UsageRaises(c) /\ c.choices[1].content \notin {None, ""}
          THEN <<c.choices[1].content>> ELSE <<>>) \o Contents(Tail(chunks))

\* The payloads of the TextDelta events in the history from position i on, in order.
RECURSIVE TextPayloadsFrom(_)
TextPayloadsFrom(i) ==
    IF i > Len(log) THEN <<>>
    ELSE (IF IsText(log[i]) THEN <<log[i].event.text_delta>> ELSE <<>>)
         \o TextPayloadsFrom(i + 1)

RECURSIVE Concat(_)
Concat(l) == IF l = <<>> THEN "" ELSE Head(l) \o Concat(Tail(l))

C37_RetryDoesNotRepeat ==
    StreamCompleted =>
        LET r == Last(Positions(IsRequest)) IN
        /\ Concat(TextPayloadsFrom(1)) = Concat(Contents(seen))
        /\ \A i \in 1..r, j \in r..Len(log) :
             (IsToolStart(log[i]) /\ IsToolStart(log[j])) =>
                 log[i].event.tool_call # log[j].event.tool_call

\* ---- the call id
\* The id the provider supplied for index idx: the first non-empty one on a delta of
\* the chunks, None when no delta for the index has one.
RECURSIVE SuppliedIdIn(_, _)
SuppliedIdIn(ds, idx) ==
    IF ds = <<>> THEN None
    ELSE IF Head(ds).index = idx /\ Head(ds).id \notin {None, ""} THEN Head(ds).id
    ELSE SuppliedIdIn(Tail(ds), idx)

RECURSIVE SuppliedId(_, _)
SuppliedId(chunks, idx) ==
    IF chunks = <<>> THEN None
    ELSE LET here == IF Head(chunks).choices = <<>> THEN None
                     ELSE SuppliedIdIn(Head(chunks).choices[1].tool_calls, idx) IN
         IF here # None THEN here ELSE SuppliedId(Tail(chunks), idx)

\* C38 (as claimed): when a streaming response has completed, the ToolCallComplete of
\* every index for which some chunk supplied an id carries that id, whichever chunk
\* supplied it, and so does the accumulator entry.
C38_CallIdFromAnyChunk ==
    StreamCompleted =>
        LET done == Positions(IsToolComplete)
            entries == SelectSeq(tool_calls, HasNameAndArguments)
        IN \A k \in 1..Len(entries) :
             SuppliedId(seen, entries[k].index) # None =>
                /\ entries[k].id = SuppliedId(seen, entries[k].index)
                /\ k <= Len(done)
                /\ log[done[k]].event.tool_call.call_id = SuppliedId(seen, entries[k].index)

\* ---- the request of a cycle
\* The position in `adds` of the last add_user_message call, 0 without one.
LastUserAdd ==
    IF \E k \in 1..Len(adds) : adds[k].op = "user"
    THEN CHOOSE k \in 1..Len(adds) :
            adds[k].op = "user" /\ \A j \in (k + 1)..Len(adds) : adds[j].op # "user"
    ELSE 0

\* C36: in every cycle AgentStart is the first event and the only AgentStart; no
\* request is made before the user message is in the history; and the messages of the
\* cycle's request are the system prompt, when there is one, and the whole history up
\* to the user message of the cycle, which is their last element.
C36_RequestCarriesHistory ==
    /\ agent_pc # "idle" =>
          /\ emitted # <<>> /\ emitted[1].type = "agent_start"
          /\ Typed(emitted, "agent_start") = <<1>>
    /\ agent_pc = "started" => calls = <<>>
    /\ calls # <<>> =>
          LET ms == calls[1].messages IN
          /\ Len(calls) = 1
          /\ LastUserAdd >= 1 /\ LastUserAdd >= Len(adds) - 1
          /\ adds[LastUserAdd].message = emitted[1].data.message
          /\ ms = SubSeq(Wire, 1, PromptLen + LastUserAdd)
          /\ ms[Len(ms)] = [role |-> "user", content |-> emitted[1].data.message]

\* The request of a second cycle: the system prompt, the first cycle's user and
\* assistant messages, and the new user message.
C36_Witness ==
    /\ cycles = 2 /\ agent_pc = "streaming" /\ _system_prompt # ""
    /\ Len(calls) = 1 /\ Len(calls[1].messages) = 4
    /\ calls[1].messages[2].role = "user" /\ calls[1].messages[3].role = "assistant"
    /\ "content" \in DOMAIN calls[1].messages[3]
    /\ calls[1].messages[3].content = "ab"
    /\ calls[1].messages[4] = [role |-> "user", content |-> emitted[1].data.message]

\* C40 (as claimed): every message get_messages returns, and every message of a
\* request, has a role and a content field.
C40_EveryMessageHasContent ==
    /\ \A i \in 1..Len(Wire) : {"role", "content"} \subseteq DOMAIN Wire[i]
    /\ \A c \in 1..Len(calls) : \A i \in 1..Len(calls[c].messages) :
          {"role", "content"} \subseteq DOMAIN calls[c].messages[i]

\* ---- read_file: the range it reports
\* C39 (as claimed): a success result for a file with at least one line reports
\* 1 <= shown_start <= shown_end <= total_lines.
C39_ShownRangeWithinFile ==
    (ReadText /\ read.result.success) =>
        LET md == read.result.metadata IN
        /\ md.total_lines = Len(read.file.lines)
        /\ 1 <= md.shown_start
        /\ md.shown_start <= md.shown_end
        /\ md.shown_end <= md.total_lines
====
